---- MODULE Spec2Model ----
(***************************************************************************)
(* A model of sns_batch's itad_steam_24h_deals.py: the throttled Steam     *)
(* HTTP client (_throttle_steam, _get_with_retry), and the pipeline of     *)
(* main() (scan, resolve, enrich, filter, rank, partition); and of        *)
(* steam_wishlist_top20.py, the wishlist ranking posted as one tweet.      *)
(*                                                                         *)
(* Time is counted in whole seconds (one tick = 1 s).  The code reads the  *)
(* clock only as a difference, gap = time.time() - _last_steam_ts[kind],   *)
(* and compares it with STEAM_MIN_INTERVAL[kind]; the model keeps that     *)
(* difference (since_ts), saturated at the interval, instead of the two    *)
(* absolute values.                                                        *)
(***************************************************************************)
EXTENDS Integers, Sequences, FiniteSets, TLC

VARIABLES
    \* ---- throttled HTTP client ----
    stage,          \* "details": main calls appdetails; "reviews": the pool runs
    throttle_lock,  \* holder of _throttle_lock, or NoOne
    since_ts,       \* [kind -> seconds since _last_steam_ts[kind], saturated]
    since_req,      \* [kind -> seconds since the last request of the class went out]
    req_gap,        \* [kind -> since_req as it was when the latest request went out]
    pc,             \* [caller -> position in _get_with_retry]
    i,              \* [caller -> loop index i; max_retry = the attempt after the loop]
    extra_backoff,  \* [caller -> local extra_backoff]
    sleep_left,     \* [caller -> seconds left of the running time.sleep]
    inflight,       \* [caller -> seconds the current request has been in flight]
    nreq,           \* [caller -> requests issued by the current call]
    resp,           \* [caller -> the outcome of the call's last request, being handled]
    calls,          \* [caller -> calls of _get_with_retry started]
    \* ---- the pipeline of main() ----
    pipe_pc,        \* the stage main() is in
    sort_idx,       \* index of sort_key in sort_candidates
    offset,         \* offset of the next page, in pages
    too_far_pages,  \* too_far_pages
    used_sort,      \* used_sort, 0 = None
    pages_left,     \* page requests the catalog service still answers
    scan_log,       \* history: the page requests of the scan, each with its outcome
    seen_in,        \* game entries with an expiry inside the window read under sort_key
    deals,          \* deals
    itad_ids,       \* itad_ids after dict.fromkeys
    mapping,        \* history: the lookup response, pairs <<catalog id, references>>
    id2appid,       \* id2appid, a dict: pairs <<catalog id, appid>> in insertion order
    target_appids,  \* target_appids
    ids,            \* ids of steam_appdetails_batch still to visit
    details_cache,  \* _details_cache: [appid -> payload], NoData = no entry
    details_map,    \* result of steam_appdetails_batch
    skipped,        \* skipped of the running batch: pairs <<appid, reason>>
    failed,         \* appids whose metadata request ended in a skip, so far
    batch_calls,    \* history: the calls of steam_appdetails_batch so far
    fetched,        \* appids a metadata request was made for, in order
    prelim,         \* prelim, with expiry_jst linked
    futs,           \* appids submitted to the pool and not yet started
    running,        \* appids whose _fetch_jp_reviews call is in progress
    results,        \* results of fetch_jp_reviews_parallel, a dict: pairs <<appid, count>>
                    \* in the order the calls completed
    reviews_cache,  \* _reviews_cache: [appid -> count], NoCount = no entry
    rev_reqs,       \* history: [appid -> review requests sent for it]
    review_calls,   \* history: the calls of fetch_jp_reviews_parallel so far
    rev_ans,        \* [appid -> how the review request for it ended], NoAnswer = not asked
    rows,           \* rows, filtered and sorted
    texts,          \* texts: the rendered units, each a sequence of lines
    \* ---- the ranking sort on its own ----
    rank_pc,        \* "in", "ranked", "reranked"
    rank_in,        \* rows before the sort
    rank_once,      \* rows after one sort
    rank_twice,     \* rows after a second sort of rank_once
    \* ---- the partition into units on its own ----
    part_pc,        \* "in", "built"
    part_rows,      \* rows, ranked
    part_texts,      \* texts
    \* posting and preview at the end of main()
    POST_TO_X,      \* POST_TO_X
    post_pc,        \* "off", "main" (lines 555-617 running), "returned", "exited"
    token_log,      \* history: what _x_refresh_access_token met, try by try
    bearer,         \* bearer
    next_unit,      \* index into texts of the unit that comes next (1-based)
    prev_id,        \* prev_id, the reply_to of the next _x_create_tweet
    tweets,         \* history: the tweet requests sent, each with its outcome
    printed,        \* history: the units printed to stdout by the preview
    exit_status,    \* status the process ends with
    \* ---- steam_wishlist_top20.py ----
    wl_pc,          \* "off", "search", "details", "post", "returned", "exited"
    wl_page,        \* i of fetch_popular_wishlist_appids: pages read so far
    candidates,     \* appids of fetch_popular_wishlist_appids, then candidates of main()
    wl_next,        \* index into candidates of the appid steam_appdetails_batch visits next
    details,        \* result of steam_appdetails_batch, a dict: pairs <<appid, data>>
    wl_skipped,     \* skipped of steam_appdetails_batch: the appids
    wl_rows,        \* rows of main()
    wl_text,        \* the rendered text: one block per listed title
    wl_exit         \* status the process ends with

httpVars == <<stage, throttle_lock, since_ts, since_req, req_gap, pc, i,
              extra_backoff, sleep_left, inflight, nreq, resp, calls>>

scanKept == <<sort_idx, offset, too_far_pages, used_sort, pages_left, seen_in, deals>>
scanVars == <<scanKept, scan_log>>
mapVars == <<itad_ids, mapping, id2appid, target_appids>>
detailVars == <<ids, details_cache, details_map, skipped, failed, fetched, batch_calls>>
enrichVars == <<prelim>>
reviewVars == <<futs, running, results, reviews_cache, rev_ans, rev_reqs, review_calls>>
outVars == <<rows, texts>>
laterVars == <<enrichVars, reviewVars, outVars>>
pipeVars == <<pipe_pc, scanVars, mapVars, detailVars, laterVars>>
rankVars == <<rank_pc, rank_in, rank_once, rank_twice>>
partVars == <<part_pc, part_rows, part_texts>>
postVars == <<POST_TO_X, post_pc, token_log, bearer, next_unit, prev_id, tweets, printed, exit_status>>

wishVars == <<wl_pc, wl_page, candidates, wl_next, details, wl_skipped, wl_rows, wl_text, wl_exit>>

vars == <<httpVars, pipeVars, rankVars, partVars, postVars, wishVars>>

nonHttpVars == <<pipeVars, rankVars, partVars, postVars, wishVars>>
nonPipeVars == <<httpVars, rankVars, partVars, postVars, wishVars>>
nonWishVars == <<httpVars, pipeVars, rankVars, partVars, postVars>>

Min(a, b) == IF a <= b THEN a ELSE b
Max(a, b) == IF a >= b THEN a ELSE b

(***************************************************************************)
(* Bounds of the model.                                                    *)
(***************************************************************************)
MaxCalls == 1      \* calls of _get_with_retry per caller
MaxLatency == 0    \* seconds a request may stay in flight

(***************************************************************************)
(* Program constants.                                                      *)
(***************************************************************************)
Kinds == {"appdetails", "appreviews"}
STEAM_MIN_INTERVAL == [k \in Kinds |-> 1]
STEAM_429_SLEEP_BASE == 6
STEAM_429_SLEEP_CAP == 45
JP_REVIEW_WORKERS == 2
max_retry == 6
base_wait == 2
FINAL_SLEEP_MIN == 20

NoOne == -1
Main == 0
Workers == 1 .. JP_REVIEW_WORKERS
Callers == {Main} \cup Workers

\* main() calls appdetails itself; the pool's workers call appreviews.
KindOf(t) == IF t = Main THEN "appdetails" ELSE "appreviews"

\* Statuses a response may carry; RetryError and ConnError are exceptions
\* raised by _steam_session.get instead of a response.
Statuses == {200, 400, 403, 404, 429, 501, 503}
RETRY_STATUSES == {429, 500, 502, 503, 504, 520, 521, 522, 523, 524}
NoHint == -1
Hints == {NoHint, 0}
Jitter == 0 .. 1   \* random.uniform(0.3, 0.9) in whole seconds
RetryError == [exc |-> "RetryError", status |-> 0, hint |-> NoHint]
ConnError == [exc |-> "ConnectionError", status |-> 0, hint |-> NoHint]
NoResp == [exc |-> "none", status |-> 0, hint |-> NoHint]
Responses == [exc : {"none"}, status : Statuses, hint : Hints] \cup {RetryError, ConnError}

Pow2(n) == IF n = 0 THEN 1 ELSE IF n = 1 THEN 2 ELSE IF n = 2 THEN 4
           ELSE IF n = 3 THEN 8 ELSE IF n = 4 THEN 16 ELSE IF n = 5 THEN 32 ELSE 64

\* wait = float(retry_after) if retry_after else base_wait * (2 ** i)
BackoffWait(hint, n) == IF hint # NoHint THEN hint ELSE base_wait * Pow2(n)

\* extra_backoff = min(STEAM_429_SLEEP_BASE * (i + 1), STEAM_429_SLEEP_CAP)
ExtraBackoff(n) == Min(STEAM_429_SLEEP_BASE * (n + 1), STEAM_429_SLEEP_CAP)

Done == {"returned", "raised"}

\* The pipeline's variables while only the HTTP client is looked at.
PipeParked ==
    /\ pipe_pc = "off"
    /\ sort_idx = 1 /\ offset = 0 /\ too_far_pages = 0 /\ used_sort = 0
    /\ pages_left = 0 /\ seen_in = 0 /\ deals = <<>> /\ scan_log = <<>>
    /\ itad_ids = <<>> /\ mapping = <<>> /\ id2appid = <<>> /\ target_appids = <<>>
    /\ ids = <<>> /\ details_cache = <<>> /\ details_map = <<>>
    /\ skipped = <<>> /\ failed = {} /\ fetched = <<>> /\ batch_calls = 0
    /\ prelim = <<>> /\ futs = <<>> /\ running = {}
    /\ results = <<>> /\ reviews_cache = <<>> /\ rev_ans = <<>>
    /\ rev_reqs = <<>> /\ review_calls = 0
    /\ rows = <<>> /\ texts = <<>>

\* The sort and the partition, when they are not looked at on their own.
RankParked ==
    rank_pc = "off" /\ rank_in = <<>> /\ rank_once = <<>> /\ rank_twice = <<>>
PartParked ==
    part_pc = "off" /\ part_rows = <<>> /\ part_texts = <<>>
PostParked ==
    /\ POST_TO_X = FALSE /\ post_pc = "off" /\ token_log = <<>> /\ bearer = "none"
    /\ next_unit = 1 /\ prev_id = 0 /\ tweets = <<>> /\ printed = <<>> /\ exit_status = 0
\* The wishlist script, when the deals script is looked at.
WishParked ==
    /\ wl_pc = "off" /\ wl_page = 0 /\ candidates = <<>> /\ wl_next = 1
    /\ details = <<>> /\ wl_skipped = <<>> /\ wl_rows = <<>> /\ wl_text = <<>>
    /\ wl_exit = 0

InitHttp ==
    /\ PipeParked
    /\ RankParked
    /\ PartParked
    /\ PostParked
    /\ WishParked
    /\ stage = "details"
    /\ throttle_lock = NoOne
    /\ since_ts = [k \in Kinds |-> STEAM_MIN_INTERVAL[k]]
    /\ since_req = [k \in Kinds |-> STEAM_MIN_INTERVAL[k]]
    /\ req_gap = [k \in Kinds |-> STEAM_MIN_INTERVAL[k]]
    /\ pc = [t \in Callers |-> "idle"]
    /\ i = [t \in Callers |-> 0]
    /\ extra_backoff = [t \in Callers |-> 0]
    /\ sleep_left = [t \in Callers |-> 0]
    /\ inflight = [t \in Callers |-> 0]
    /\ nreq = [t \in Callers |-> 0]
    /\ resp = [t \in Callers |-> NoResp]
    /\ calls = [t \in Callers |-> 0]

\* The client's variables while only the pipeline is looked at.
HttpParked ==
    /\ stage = "off"
    /\ throttle_lock = NoOne
    /\ since_ts = [k \in Kinds |-> STEAM_MIN_INTERVAL[k]]
    /\ since_req = [k \in Kinds |-> STEAM_MIN_INTERVAL[k]]
    /\ req_gap = [k \in Kinds |-> STEAM_MIN_INTERVAL[k]]
    /\ pc = [t \in Callers |-> "idle"]
    /\ i = [t \in Callers |-> 0]
    /\ extra_backoff = [t \in Callers |-> 0]
    /\ sleep_left = [t \in Callers |-> 0]
    /\ inflight = [t \in Callers |-> 0]
    /\ nreq = [t \in Callers |-> 0]
    /\ resp = [t \in Callers |-> NoResp]
    /\ calls = [t \in Callers |-> 0]

CanStart(t) ==
    /\ pc[t] = "idle"
    /\ calls[t] < MaxCalls
    /\ stage = (IF t = Main THEN "details" ELSE "reviews")

\* A caller enters _get_with_retry: extra_backoff = 0.0, i = 0.
StartCall(t) ==
    /\ CanStart(t)
    /\ pc' = [pc EXCEPT ![t] = "throttle"]
    /\ i' = [i EXCEPT ![t] = 0]
    /\ extra_backoff' = [extra_backoff EXCEPT ![t] = 0]
    /\ nreq' = [nreq EXCEPT ![t] = 0]
    /\ resp' = [resp EXCEPT ![t] = NoResp]
    /\ calls' = [calls EXCEPT ![t] = @ + 1]
    /\ UNCHANGED <<stage, throttle_lock, since_ts, since_req, req_gap, sleep_left, inflight>>
    /\ UNCHANGED nonHttpVars

\* main() leaves steam_appdetails_batch and starts fetch_jp_reviews_parallel.
NextStage ==
    /\ stage = "details"
    /\ pc[Main] = "idle"
    /\ stage' = "reviews"
    /\ UNCHANGED <<throttle_lock, since_ts, since_req, req_gap, pc, i, extra_backoff,
                   sleep_left, inflight, nreq, resp, calls>>
    /\ UNCHANGED nonHttpVars

\* _last_steam_ts[kind] = time.time(), the lock released, and the request
\* of line 189 (220 after the loop) sent.
StampAndSend(t) ==
    /\ since_ts' = [since_ts EXCEPT ![KindOf(t)] = 0]
    /\ req_gap' = [req_gap EXCEPT ![KindOf(t)] = since_req[KindOf(t)]]
    /\ since_req' = [since_req EXCEPT ![KindOf(t)] = 0]
    /\ nreq' = [nreq EXCEPT ![t] = @ + 1]
    /\ inflight' = [inflight EXCEPT ![t] = 0]
    /\ pc' = [pc EXCEPT ![t] = "get"]
    /\ throttle_lock' = NoOne

\* _throttle_steam up to its sleep: the lock taken, gap computed.
ThrottleEnter(t) ==
    /\ pc[t] = "throttle"
    /\ throttle_lock = NoOne
    /\ LET gap == since_ts[KindOf(t)]
           min_gap == STEAM_MIN_INTERVAL[KindOf(t)]
       IN IF gap < min_gap
          THEN /\ throttle_lock' = t
               /\ sleep_left' = [sleep_left EXCEPT ![t] = min_gap - gap]
               /\ pc' = [pc EXCEPT ![t] = "thr_sleep"]
               /\ UNCHANGED <<since_ts, since_req, req_gap, nreq, inflight>>
          ELSE /\ StampAndSend(t)
               /\ UNCHANGED sleep_left
    /\ UNCHANGED <<stage, i, extra_backoff, resp, calls>>
    /\ UNCHANGED nonHttpVars

\* _throttle_steam after its sleep.
ThrottleWake(t) ==
    /\ pc[t] = "thr_sleep"
    /\ sleep_left[t] = 0
    /\ StampAndSend(t)
    /\ UNCHANGED <<stage, i, extra_backoff, sleep_left, resp, calls>>
    /\ UNCHANGED nonHttpVars

\* _steam_session.get comes back: a response, or an exception.
Receive(t) ==
    /\ pc[t] = "get"
    /\ \E r \in Responses : resp' = [resp EXCEPT ![t] = r]
    /\ pc' = [pc EXCEPT ![t] = "handle"]
    /\ inflight' = [inflight EXCEPT ![t] = 0]
    /\ UNCHANGED <<stage, throttle_lock, since_ts, since_req, req_gap, i, extra_backoff,
                   sleep_left, nreq, calls>>
    /\ UNCHANGED nonHttpVars

Raise(t) ==
    /\ pc' = [pc EXCEPT ![t] = "raised"]
    /\ UNCHANGED <<extra_backoff, sleep_left, resp>>

Return(t) ==
    /\ pc' = [pc EXCEPT ![t] = "returned"]
    /\ UNCHANGED <<extra_backoff, sleep_left, resp>>

\* Lines 203-209: extra_backoff set and the backoff sleep begun.
Backoff(t, hint, jitter) ==
    /\ extra_backoff' = [extra_backoff EXCEPT ![t] = ExtraBackoff(i[t])]
    /\ sleep_left' = [sleep_left EXCEPT ![t] =
                         BackoffWait(hint, i[t]) + jitter + ExtraBackoff(i[t])]
    /\ pc' = [pc EXCEPT ![t] = "backoff"]
    /\ resp' = [resp EXCEPT ![t] = NoResp]

\* Mutant: every client error is retried like a 429.
HandleStatus_RetryClientErrors(t, status, hint, jitter) ==
    IF status = 200 THEN Return(t)
    ELSE IF status = 400 THEN Raise(t)
    ELSE IF status \in RETRY_STATUSES \/ (status >= 400 /\ status < 500)
         THEN Backoff(t, hint, jitter)
    ELSE Raise(t)

\* Lines 193-216 on a response with this status and Retry-After hint.
HandleStatus(t, status, hint, jitter) ==
    IF status = 200 THEN Return(t)
    ELSE IF status = 400 THEN Raise(t)
    ELSE IF status \in RETRY_STATUSES THEN Backoff(t, hint, jitter)
    ELSE Raise(t)

\* Lines 190-216: what the loop does with the outcome of its request.  A
\* RetryError stands for a 429 without headers; any other exception leaves
\* the function.
HandleLoop(t) ==
    /\ pc[t] = "handle"
    /\ i[t] < max_retry
    /\ \E jitter \in Jitter :
          IF resp[t].exc = "ConnectionError" THEN Raise(t)
          ELSE IF resp[t].exc = "RetryError" THEN HandleStatus(t, 429, NoHint, jitter)
          ELSE HandleStatus(t, resp[t].status, resp[t].hint, jitter)
    /\ UNCHANGED <<stage, throttle_lock, since_ts, since_req, req_gap, i, inflight,
                   nreq, calls>>
    /\ UNCHANGED nonHttpVars

\* Lines 220-222: the request after the loop; raise_for_status raises on
\* 4xx and 5xx.
HandleFinal(t) ==
    /\ pc[t] = "handle"
    /\ i[t] = max_retry
    /\ IF resp[t].exc # "none" THEN Raise(t)
       ELSE IF resp[t].status >= 400 /\ resp[t].status < 600 THEN Raise(t)
       ELSE Return(t)
    /\ UNCHANGED <<stage, throttle_lock, since_ts, since_req, req_gap, i, inflight,
                   nreq, calls>>
    /\ UNCHANGED nonHttpVars

\* The caller of _get_with_retry takes the result or the exception; the
\* call's frame is gone.
EndCall(t) ==
    /\ pc[t] \in Done
    /\ pc' = [pc EXCEPT ![t] = "idle"]
    /\ i' = [i EXCEPT ![t] = 0]
    /\ extra_backoff' = [extra_backoff EXCEPT ![t] = 0]
    /\ nreq' = [nreq EXCEPT ![t] = 0]
    /\ resp' = [resp EXCEPT ![t] = NoResp]
    /\ UNCHANGED <<stage, throttle_lock, since_ts, since_req, req_gap, sleep_left,
                   inflight, calls>>
    /\ UNCHANGED nonHttpVars

\* Mutant: the retry goes round again without using up an attempt.
BackoffReset_NoCount(t) ==
    /\ pc[t] = "backoff"
    /\ sleep_left[t] = 0
    /\ throttle_lock = NoOne
    /\ since_ts' = [since_ts EXCEPT ![KindOf(t)] = STEAM_MIN_INTERVAL[KindOf(t)]]
    /\ pc' = [pc EXCEPT ![t] = "throttle"]
    /\ UNCHANGED <<stage, throttle_lock, since_req, req_gap, i, extra_backoff, sleep_left,
                   inflight, nreq, resp, calls>>
    /\ UNCHANGED nonHttpVars

\* Lines 210-212 after the sleep of line 209, and line 218 when the loop ends.
BackoffReset(t) ==
    /\ pc[t] = "backoff"
    /\ sleep_left[t] = 0
    /\ throttle_lock = NoOne
    /\ since_ts' = [since_ts EXCEPT ![KindOf(t)] = STEAM_MIN_INTERVAL[KindOf(t)]]
    /\ i' = [i EXCEPT ![t] = @ + 1]
    /\ IF i[t] + 1 < max_retry
       THEN /\ pc' = [pc EXCEPT ![t] = "throttle"]
            /\ UNCHANGED sleep_left
       ELSE /\ pc' = [pc EXCEPT ![t] = "final_sleep"]
            /\ sleep_left' = [sleep_left EXCEPT ![t] =
                                 Max(FINAL_SLEEP_MIN, extra_backoff[t])]
    /\ UNCHANGED <<stage, throttle_lock, since_req, req_gap, extra_backoff, inflight,
                   nreq, resp, calls>>
    /\ UNCHANGED nonHttpVars

\* Line 219 once the sleep of line 218 is over.
FinalWake(t) ==
    /\ pc[t] = "final_sleep"
    /\ sleep_left[t] = 0
    /\ pc' = [pc EXCEPT ![t] = "throttle"]
    /\ UNCHANGED <<stage, throttle_lock, since_ts, since_req, req_gap, i, extra_backoff,
                   sleep_left, inflight, nreq, resp, calls>>
    /\ UNCHANGED nonHttpVars

\* A step that takes no time is taken before the clock moves.
Urgent ==
    \E t \in Callers :
        \/ CanStart(t)
        \/ pc[t] \in {"handle"} \cup Done
        \/ pc[t] = "throttle" /\ throttle_lock = NoOne
        \/ pc[t] \in {"thr_sleep", "final_sleep"} /\ sleep_left[t] = 0
        \/ pc[t] = "backoff" /\ sleep_left[t] = 0 /\ throttle_lock = NoOne

Sleeping == {t \in Callers : sleep_left[t] > 0}

\* The time to the next thing that can happen: one second while a request
\* is in flight (its answer may come at any moment) or nobody sleeps, else
\* the shortest remaining sleep.
Elapse ==
    IF Sleeping = {} \/ \E t \in Callers : pc[t] = "get" THEN 1
    ELSE CHOOSE d \in {sleep_left[t] : t \in Sleeping} :
             \A t \in Sleeping : d <= sleep_left[t]

\* Time passes: the sleeps of time.sleep run down and the clock moves away
\* from the recorded timestamps.
Tick ==
    /\ ~Urgent
    /\ \A t \in Callers : pc[t] = "get" => inflight[t] < MaxLatency
    /\ sleep_left' = [t \in Callers |-> Max(sleep_left[t] - Elapse, 0)]
    /\ since_ts' = [k \in Kinds |-> Min(since_ts[k] + Elapse, STEAM_MIN_INTERVAL[k])]
    /\ since_req' = [k \in Kinds |-> Min(since_req[k] + Elapse, STEAM_MIN_INTERVAL[k])]
    /\ inflight' = [t \in Callers |-> IF pc[t] = "get" THEN inflight[t] + 1 ELSE inflight[t]]
    /\ UNCHANGED <<stage, throttle_lock, req_gap, pc, i, extra_backoff, nreq, resp, calls>>
    /\ UNCHANGED nonHttpVars

NextHttp ==
    \/ \E t \in Callers : StartCall(t)
    \/ NextStage
    \/ \E t \in Callers : ThrottleEnter(t)
    \/ \E t \in Callers : ThrottleWake(t)
    \/ \E t \in Callers : Receive(t)
    \/ \E t \in Callers : HandleLoop(t)
    \/ \E t \in Callers : HandleFinal(t)
    \/ \E t \in Callers : EndCall(t)
    \/ \E t \in Callers : BackoffReset(t)
    \/ \E t \in Callers : FinalWake(t)
    \/ Tick

SpecHttp == InitHttp /\ [][NextHttp]_vars

(***************************************************************************)
(* The pipeline of main().  A call of the catalog service or of the store  *)
(* is one step here: _get_with_retry ends by returning or raising (C2),    *)
(* and the step takes its result.                                          *)
(***************************************************************************)

\* Bounds of the pipeline.
MaxPages == 3      \* page requests the catalog service answers in one run
MaxPageLen == 1    \* entries of one page
MaxDeals == 3      \* entries inside the window the service lists under one sort key

\* Aware datetimes: a wall clock reading (hours) and its UTC offset.
JST_OFFSET == 9
START_HOUR == 9
DAY_HOURS == 24
MIN_JP_REVIEWS == 10
Instant(dt) == dt.clock - dt.off
\* datetime.astimezone(JST)
AsJST(dt) == [clock |-> Instant(dt) + JST_OFFSET, off |-> JST_OFFSET]
\* <= of two aware datetimes
DtLe(a, b) == Instant(a) <= Instant(b)
\* start, end of main(): today 09:00 JST and a day later
WinStart == [clock |-> START_HOUR, off |-> JST_OFFSET]
WinEnd == [clock |-> WinStart.clock + DAY_HOURS, off |-> JST_OFFSET]

\* The expiry field of a deal: absent, text isoparse rejects, or an ISO
\* time with its offset.
NoExpiry == [kind |-> "none", clock |-> 0, off |-> 0]
BadExpiry == [kind |-> "bad", clock |-> 0, off |-> 0]
Iso(c, o) == [kind |-> "iso", clock |-> c, off |-> o]
NoId == "none"

\* Entries the catalog service may list.
Catalog ==
    { [id |-> "a", type |-> "game", expiry |-> Iso(0, 0)],      \* = start
      [id |-> "b", type |-> "Game", expiry |-> Iso(33, 9)],     \* = end
      [id |-> "c", type |-> "game", expiry |-> Iso(12, 0)],
      [id |-> NoId, type |-> "game", expiry |-> Iso(21, 9)],
      [id |-> "d", type |-> "game", expiry |-> Iso(25, 0)],     \* past the end
      [id |-> "d", type |-> "game", expiry |-> Iso(8, 9)],      \* before the start
      [id |-> "e", type |-> "dlc", expiry |-> Iso(12, 0)],
      [id |-> "e", type |-> "game", expiry |-> NoExpiry],
      [id |-> "e", type |-> "game", expiry |-> BadExpiry] }

SeqsUpTo(S, n) == UNION {[1 .. k -> S] : k \in 0 .. n}
Pages == SeqsUpTo(Catalog, MaxPageLen)

\* str.lower() on the type strings that occur
Lower(str) == IF str = "Game" THEN "game" ELSE str

sort_candidates == <<"expiry", "-expiry", "-cut">>

\* dtparser.isoparse(expiry).astimezone(JST); only called when it parses
ParseExpiry(e) == AsJST([clock |-> e.clock, off |-> e.off])
HasExpiry(d) == d.expiry.kind = "iso"

\* Mutant: the window's end is excluded.
InWindow_EndExcluded(d, start, end) ==
    /\ HasExpiry(d)
    /\ DtLe(start, ParseExpiry(d.expiry))
    /\ DtLe(ParseExpiry(d.expiry), end)
    /\ Instant(ParseExpiry(d.expiry)) # Instant(end)

\* Lines 271-277: start <= exp_dt <= end, for an entry whose expiry parses.
InWindow(d, start, end) ==
    /\ HasExpiry(d)
    /\ DtLe(start, ParseExpiry(d.expiry))
    /\ DtLe(ParseExpiry(d.expiry), end)

\* Line 279: exp_dt > end.
PastWindow(d, end) ==
    /\ HasExpiry(d)
    /\ ~DtLe(ParseExpiry(d.expiry), end)

\* Line 267: (d.get("type") or "").lower() == "game".
IsGame(d) == Lower(d.type) = "game"

\* lst of line 267.
GameEntries(pg) == SelectSeq(pg, IsGame)

InWindowNow(d) == InWindow(d, WinStart, WinEnd)
PastWindowNow(d) == PastWindow(d, WinEnd)
\* The entries lines 270-280 append to deals, and page_in, page_out.
PageDeals(pg) == SelectSeq(GameEntries(pg), InWindowNow)
PageIn(pg) == Len(PageDeals(pg))
PageOut(pg) == Len(SelectSeq(GameEntries(pg), PastWindowNow))

\* What the window filter is to keep: a game whose expiry is a time from
\* start to end, both included (0 h and 24 h after 00:00 UTC today).
WantedEntry(d) ==
    /\ d.type \in {"game", "Game"}
    /\ d.expiry.kind = "iso"
    /\ d.expiry.clock - d.expiry.off >= 0
    /\ d.expiry.clock - d.expiry.off <= 24

\* Lines 297-298: the function returns deals; its other locals are gone,
\* and the catalog is not paged again.
ScanReturn ==
    /\ pipe_pc' = "map"
    /\ offset' = 0
    /\ too_far_pages' = 0
    /\ pages_left' = 0

\* An entry of scan_log: the sort key asked for, what came back ("page" or
\* "http-error"), the page's page_in and page_out, and its hasMore.
ScanEvent(idx, res, pin, pout, more) ==
    [sort |-> idx, res |-> res, pin |-> pin, pout |-> pout, more |-> more]
\* Line 282: page_in == 0 and page_out > 0.
IsFar(pg) == PageIn(pg) = 0 /\ PageOut(pg) > 0

\* Mutant: a page that is not too far leaves the count as it is.
FarPages_NoReset(pg, n) == IF IsFar(pg) THEN n + 1 ELSE n

\* Lines 282-285: too_far_pages after the page.
FarPages(pg, n) == IF IsFar(pg) THEN n + 1 ELSE 0

\* Lines 255-292: one page read and processed under the current sort key.
\* hasMore and nextOffset are the service's; the service has pages_left
\* pages to give.
ScanPage ==
    /\ pipe_pc = "scan"
    /\ pages_left > 0
    /\ \E pg \in Pages, hasMore \in BOOLEAN, nextOffset \in {0, offset + 1} :
          /\ Len(deals) + PageIn(pg) <= MaxDeals
          /\ seen_in' = seen_in + Cardinality({k \in 1 .. Len(pg) : WantedEntry(pg[k])})
          /\ deals' = deals \o PageDeals(pg)
          /\ scan_log' = Append(scan_log,
                                ScanEvent(sort_idx, "page", PageIn(pg), PageOut(pg), hasMore))
          /\ LET far == FarPages(pg, too_far_pages)
             IN IF far >= 3 \/ ~hasMore
                THEN /\ used_sort' = sort_idx
                     /\ ScanReturn
                ELSE /\ pages_left > 1
                     /\ offset' = nextOffset
                     /\ too_far_pages' = far
                     /\ pages_left' = pages_left - 1
                     /\ UNCHANGED <<used_sort, pipe_pc>>
    /\ UNCHANGED <<sort_idx, mapVars, detailVars>>
    /\ UNCHANGED <<laterVars, nonPipeVars>>

\* Mutant: the next candidate goes on with what the failed one gathered.
ScanHttpError_KeepsDeals ==
    /\ pipe_pc = "scan"
    /\ pages_left > 0
    /\ scan_log' = Append(scan_log, ScanEvent(sort_idx, "http-error", 0, 0, FALSE))
    /\ IF sort_idx < Len(sort_candidates)
       THEN /\ sort_idx' = sort_idx + 1
            /\ offset' = 0
            /\ too_far_pages' = 0
            /\ UNCHANGED <<pipe_pc, pages_left, deals, seen_in>>
       ELSE /\ ScanReturn
            /\ UNCHANGED <<sort_idx, deals, seen_in>>
    /\ UNCHANGED <<used_sort, mapVars, detailVars>>
    /\ UNCHANGED <<laterVars, nonPipeVars>>

\* Lines 294-295 and 251-254: get_with_key raised requests.HTTPError; the
\* next candidate starts with deals cleared, and after the last candidate
\* the function returns what deals holds.
ScanHttpError ==
    /\ pipe_pc = "scan"
    /\ pages_left > 0
    /\ scan_log' = Append(scan_log, ScanEvent(sort_idx, "http-error", 0, 0, FALSE))
    /\ IF sort_idx < Len(sort_candidates)
       THEN /\ sort_idx' = sort_idx + 1
            /\ deals' = <<>>
            /\ offset' = 0
            /\ too_far_pages' = 0
            /\ seen_in' = 0
            /\ UNCHANGED <<pipe_pc, pages_left>>
       ELSE /\ ScanReturn
            /\ UNCHANGED <<sort_idx, deals, seen_in>>
    /\ UNCHANGED <<used_sort, mapVars, detailVars>>
    /\ UNCHANGED <<laterVars, nonPipeVars>>

\* get_with_key raised something else (no connection, a timeout): main()
\* ends with the exception.
ScanCrash ==
    /\ pipe_pc = "scan"
    /\ pages_left > 0
    /\ pipe_pc' = "crashed"
    /\ UNCHANGED <<scanVars, mapVars, detailVars>>
    /\ UNCHANGED <<laterVars, nonPipeVars>>

\* References the lookup service lists for a catalog id: text
\* "<prefix>/<tail>", or something that is no string.
Ref(prefix, tail) == [str |-> TRUE, prefix |-> prefix, tail |-> tail]
NonStrRef == [str |-> FALSE, prefix |-> "", tail |-> ""]
\* int() of the tails that occur; NoInt when int() raises
NoInt == -1
ParseInt(tail) ==
    IF tail = "10" THEN 10 ELSE IF tail = "20" THEN 20
    ELSE IF tail = "30" THEN 30 ELSE IF tail = "0" THEN 0 ELSE NoInt
AppIds == {10, 20, 30}

\* What the lookup service may answer for a catalog id: no key, or a list.
NoKey == [present |-> FALSE, cands |-> <<>>]
Listed(cands) == [present |-> TRUE, cands |-> cands]
LookupOptions(id) ==
    IF id = "a" THEN {NoKey, Listed(<<Ref("app", "10")>>)}
    ELSE IF id = "b"
    THEN {Listed(<<>>),
          Listed(<<Ref("sub", "9"), Ref("app", "x"), Ref("app", "20"), Ref("app", "10")>>)}
    ELSE {Listed(<<Ref("app", "30")>>), Listed(<<Ref("app", "10")>>),
          Listed(<<NonStrRef, Ref("bundle", "5")>>), Listed(<<Ref("app", "0")>>)}

\* Lines 309-314: the first reference "app/<int>" of the list.
UsableRef(sid) == sid.str /\ sid.prefix = "app" /\ ParseInt(sid.tail) # NoInt
HasApp(cands) == \E k \in 1 .. Len(cands) : UsableRef(cands[k])
\* Mutant: the loop does not stop at the first usable reference.
FirstApp_Last(cands) ==
    LET k == CHOOSE n \in 1 .. Len(cands) :
                 UsableRef(cands[n]) /\ \A m \in n + 1 .. Len(cands) : ~UsableRef(cands[m])
    IN ParseInt(cands[k].tail)
FirstApp(cands) ==
    LET k == CHOOSE n \in 1 .. Len(cands) :
                 UsableRef(cands[n]) /\ \A m \in 1 .. n - 1 : ~UsableRef(cands[m])
    IN ParseInt(cands[k].tail)

\* Mutant: the last occurrence of each element is the one kept.
RECURSIVE Dedupe_LastWins(_)
Dedupe_LastWins(xs) ==
    IF xs = <<>> THEN <<>>
    ELSE IF \E k \in 2 .. Len(xs) : xs[k] = xs[1]
         THEN Dedupe_LastWins(Tail(xs))
         ELSE <<xs[1]>> \o Dedupe_LastWins(Tail(xs))

\* list(dict.fromkeys(xs)): the first occurrence of each element, in order.
RECURSIVE Dedupe(_)
Dedupe(xs) ==
    IF xs = <<>> THEN <<>>
    ELSE LET init == Dedupe(SubSeq(xs, 1, Len(xs) - 1))
             last == xs[Len(xs)]
         IN IF \E k \in 1 .. Len(init) : init[k] = last THEN init ELSE Append(init, last)

Reverse(xs) == [k \in 1 .. Len(xs) |-> xs[Len(xs) + 1 - k]]
HasId(d) == d.id # NoId
IdOf(d) == d.id
MapSeq(xs, F(_)) == [k \in 1 .. Len(xs) |-> F(xs[k])]

\* Lines 481-482.
ItadIds(ds) == Dedupe(MapSeq(SelectSeq(ds, HasId), IdOf))

\* A dict kept as the sequence of its <<key, value>> pairs.
HasKey(dict, key) == \E k \in 1 .. Len(dict) : dict[k][1] = key
Get(dict, key) == dict[CHOOSE k \in 1 .. Len(dict) : dict[k][1] = key][2]

\* Line 306: the response, the keys it holds with their lists in its order.
MappingOf(order, answer) ==
    LET present(id) == answer[id].present
        pair(id) == <<id, answer[id].cands>>
    IN MapSeq(SelectSeq(order, present), pair)

\* Lines 306-314: appids filled from the response, in its key order.
RECURSIVE AppidsOf(_, _)
AppidsOf(order, answer) ==
    IF order = <<>> THEN <<>>
    ELSE LET id == order[Len(order)]
             init == AppidsOf(SubSeq(order, 1, Len(order) - 1), answer)
         IN IF answer[id].present /\ HasApp(answer[id].cands)
            THEN Append(init, <<id, FirstApp(answer[id].cands)>>)
            ELSE init

\* Line 484.
TargetAppids(ds, dict) ==
    LET mapped(d) == HasKey(dict, d.id)
        appid(d) == Get(dict, d.id)
    IN MapSeq(SelectSeq(ds, mapped), appid)

\* Lines 320-321: the positive ids, first occurrences.
Positive(a) == a > 0
BatchIds(appids) == Dedupe(SelectSeq(appids, Positive))

\* Lines 480-489: the ids resolved in one lookup call (fewer than CHUNK
\* ids), target_appids built, and steam_appdetails_batch entered.
MapIds ==
    /\ pipe_pc = "map"
    /\ LET wanted == ItadIds(deals)
           keys == {wanted[k] : k \in 1 .. Len(wanted)}
       IN \E order \in {wanted, Reverse(wanted)} :
          \E answer \in {f \in [keys -> UNION {LookupOptions(id) : id \in keys}] :
                            \A id \in keys : f[id] \in LookupOptions(id)} :
             LET dict == AppidsOf(order, answer)
                 targets == TargetAppids(deals, dict)
             IN /\ itad_ids' = wanted
                /\ mapping' = MappingOf(order, answer)
                /\ id2appid' = dict
                /\ target_appids' = targets
                /\ ids' = BatchIds(targets)
    /\ pipe_pc' = "details"
    /\ scan_log' = <<>>
    /\ UNCHANGED <<scanKept, details_cache, details_map, skipped, failed, fetched, batch_calls>>
    /\ UNCHANGED <<laterVars, nonPipeVars>>

\* post_with_key raised in map_itad_ids_to_appids: main() ends with it.
MapCrash ==
    /\ pipe_pc = "map"
    /\ ItadIds(deals) # <<>>
    /\ itad_ids' = ItadIds(deals)
    /\ pipe_pc' = "crashed"
    /\ scan_log' = <<>>
    /\ UNCHANGED <<scanKept, mapping, id2appid, target_appids, detailVars>>
    /\ UNCHANGED <<laterVars, nonPipeVars>>

\* The payloads of the store's appdetails.  A price_overview may come
\* without one of its amounts: NoAmount is po.get(...) answering None.
NoAmount == -1
OrZero(amount) == IF amount = NoAmount THEN 0 ELSE amount
NoPrice == [present |-> FALSE, initial |-> 0, final |-> 0, discount_percent |-> 0]
Price(initial, final, pct) ==
    [present |-> TRUE, initial |-> initial, final |-> final, discount_percent |-> pct]
NoData == [type |-> "none", is_free |-> FALSE, po |-> NoPrice, name |-> ""]
Payloads(aid) ==
    IF aid = 10
    THEN {[type |-> "game", is_free |-> FALSE, po |-> Price(198000, 99000, 50), name |-> "A"],
          [type |-> "dlc", is_free |-> FALSE, po |-> Price(198000, 99000, 50), name |-> "A"]}
    ELSE IF aid = 20
    THEN {[type |-> "game", is_free |-> TRUE, po |-> NoPrice, name |-> "B"],
          [type |-> "game", is_free |-> FALSE, po |-> NoPrice, name |-> "B"]}
    ELSE {[type |-> "Game", is_free |-> FALSE, po |-> Price(50050, 45045, 10), name |-> "C"],
          [type |-> "game", is_free |-> FALSE, po |-> Price(NoAmount, 45045, 10), name |-> "C"]}

\* How one appdetails request can end (lines 329-343).
DetailOutcomes(aid) ==
    [kind : {"data"}, data : Payloads(aid)]
        \cup [kind : {"no-key-in-json", "success:false", "no-data-field", "http-err",
                      "exception"},
              data : {NoData}]

EmptyMap == [a \in AppIds |-> NoData]
Put(map, aid, data) == [map EXCEPT ![aid] = data]

\* The batch goes on with its next id, or returns when there is none
\* (lines 345-350: skipped is logged and gone).
BatchAdvance(sk) ==
    /\ ids' = Tail(ids)
    /\ IF Tail(ids) = <<>>
       THEN pipe_pc' = "prelim" /\ skipped' = <<>>
       ELSE pipe_pc' = "details" /\ skipped' = sk

\* Mutant: an HTTP error of one id ends the batch with an exception.
DetailFailed_HttpFatal(aid, reason) ==
    /\ failed' = failed \cup {aid}
    /\ IF reason = "http-err"
       THEN pipe_pc' = "crashed" /\ ids' = Tail(ids) /\ skipped' = <<>>
       ELSE BatchAdvance(Append(skipped, <<aid, reason>>))
    /\ UNCHANGED <<details_map, details_cache>>

\* Lines 332-336 and 339-343: the id is noted in skipped, nothing else.
DetailFailed(aid, reason) ==
    /\ failed' = failed \cup {aid}
    /\ BatchAdvance(Append(skipped, <<aid, reason>>))
    /\ UNCHANGED <<details_map, details_cache>>

\* Mutant: the cache is never found to hold an id.
Cached_Never(aid) == FALSE

\* Line 325: aid in _details_cache.
Cached(aid) == details_cache[aid] # NoData

\* Lines 324-343: the next id of the batch.
DetailStep ==
    /\ pipe_pc = "details"
    /\ ids # <<>>
    /\ LET aid == Head(ids)
       IN IF Cached(aid)
          THEN /\ details_map' = Put(details_map, aid, details_cache[aid])
               /\ BatchAdvance(skipped)
               /\ UNCHANGED <<details_cache, failed, fetched>>
          ELSE /\ fetched' = Append(fetched, aid)
               /\ \E out \in DetailOutcomes(aid) :
                     IF out.kind = "data"
                     THEN /\ details_map' = Put(details_map, aid, out.data)
                          /\ details_cache' = Put(details_cache, aid, out.data)
                          /\ BatchAdvance(skipped)
                          /\ UNCHANGED failed
                     ELSE DetailFailed(aid, out.kind)
    /\ UNCHANGED <<scanVars, mapVars, batch_calls>>
    /\ UNCHANGED <<laterVars, nonPipeVars>>

\* Line 489: with no target_appids the batch is not called.
DetailSkip ==
    /\ pipe_pc = "details"
    /\ ids = <<>>
    /\ pipe_pc' = "prelim"
    /\ UNCHANGED <<scanVars, mapVars, detailVars>>
    /\ UNCHANGED <<laterVars, nonPipeVars>>

\* The JST datetime an entry carries as expiry_jst, or None.
None == [known |-> FALSE, clock |-> 0, off |-> 0]
Known(dt) == [known |-> TRUE, clock |-> dt.clock, off |-> dt.off]

\* details_map.get(appid)
DataOf(dmap, appid) == IF appid \in DOMAIN dmap THEN dmap[appid] ELSE NoData

\* Lines 498-507: the data main() makes an entry of.
Keeps(data) ==
    /\ data # NoData
    /\ Lower(data.type) = "game"
    /\ data.is_free \/ data.po.present

\* Lines 502-511.
Entry(appid, data) ==
    [appid |-> appid,
     name |-> data.name,
     initial |-> IF data.is_free THEN 0 ELSE OrZero(data.po.initial) \div 100,
     final |-> IF data.is_free THEN 0 ELSE OrZero(data.po.final) \div 100,
     off |-> IF data.is_free THEN 0 ELSE OrZero(data.po.discount_percent),
     expiry_jst |-> None]

\* Lines 494-511: one entry for the first occurrence of each appid that
\* Keeps() lets through.
RECURSIVE PrelimOf(_, _)
\* Mutant: no seen set, every occurrence of an appid makes an entry.
RECURSIVE PrelimOf_NoSeen(_, _)
PrelimOf_NoSeen(appids, dmap) ==
    IF appids = <<>> THEN <<>>
    ELSE LET init == SubSeq(appids, 1, Len(appids) - 1)
             appid == appids[Len(appids)]
         IN IF ~Keeps(DataOf(dmap, appid))
            THEN PrelimOf_NoSeen(init, dmap)
            ELSE Append(PrelimOf_NoSeen(init, dmap), Entry(appid, DataOf(dmap, appid)))

PrelimOf(appids, dmap) ==
    IF appids = <<>> THEN <<>>
    ELSE LET init == SubSeq(appids, 1, Len(appids) - 1)
             appid == appids[Len(appids)]
         IN IF (\E k \in 1 .. Len(init) : init[k] = appid) \/ ~Keeps(DataOf(dmap, appid))
            THEN PrelimOf(init, dmap)
            ELSE Append(PrelimOf(init, dmap), Entry(appid, DataOf(dmap, appid)))

\* Lines 514-520: itad_expiry_map holds, for an id, the expiry of the last
\* deal that has the id.
InExpiryMap(ds, id) ==
    \E k \in 1 .. Len(ds) : HasId(ds[k]) /\ ds[k].id = id /\ HasExpiry(ds[k])
ExpiryMapGet(ds, id) ==
    LET hit(k) == HasId(ds[k]) /\ ds[k].id = id /\ HasExpiry(ds[k])
        last == CHOOSE n \in 1 .. Len(ds) : hit(n) /\ \A m \in n + 1 .. Len(ds) : ~hit(m)
    IN ParseExpiry(ds[last].expiry)

\* Lines 521-524: the expiry of the first catalog id of id2appid that
\* resolves to the entry's appid and has an expiry.
Linked(e, ds, dict) ==
    LET hit(k) == dict[k][2] = e.appid /\ InExpiryMap(ds, dict[k][1])
    IN IF \E k \in 1 .. Len(dict) : hit(k)
       THEN LET first == CHOOSE n \in 1 .. Len(dict) : hit(n) /\ \A m \in 1 .. n - 1 : ~hit(m)
            IN [e EXCEPT !.expiry_jst = Known(ExpiryMapGet(ds, dict[first][1]))]
       ELSE e

AppidOf(e) == e.appid

\* Lines 494-530: prelim built and linked, the appids submitted to the pool.
Enrich ==
    /\ pipe_pc = "prelim"
    /\ LET built == PrelimOf(target_appids, details_map)
           linked == [k \in 1 .. Len(built) |-> Linked(built[k], deals, id2appid)]
       IN /\ prelim' = linked
          /\ futs' = MapSeq(linked, AppidOf)
    /\ pipe_pc' = "reviews"
    /\ review_calls' = IF PrelimOf(target_appids, details_map) = <<>>
                       THEN review_calls ELSE review_calls + 1
    /\ UNCHANGED <<scanVars, mapVars, detailVars, running, results, reviews_cache, rev_ans, rev_reqs,
                   outVars>>
    /\ UNCHANGED nonPipeVars

\* The ways one _fetch_jp_reviews call can end: a count; a
\* RequestException of _get_with_retry; a body that is no JSON; a
\* total_reviews int() rejects.
NoCount == -1
ReviewCounts(aid) ==
    IF aid = 10 THEN {25, 9} ELSE IF aid = 20 THEN {5, 10} ELSE {40}
ReviewOutcomes(aid) ==
    [kind : {"count"}, n : ReviewCounts(aid)]
        \cup [kind : {"request-exception", "not-json", "bad-total"}, n : {0}]

NoCounts == [a \in AppIds |-> NoCount]
NoAnswer == [kind |-> "none", n |-> 0]

\* Mutant: a request exception of one call ends the whole batch.
ReviewDone_NetErrorFatal(aid, out) ==
    IF out.kind \in {"bad-total", "request-exception"}
    THEN /\ UNCHANGED <<results, reviews_cache>>
         /\ pipe_pc' = IF out.kind = "request-exception" THEN "crashed" ELSE pipe_pc
    ELSE /\ reviews_cache' = [reviews_cache EXCEPT ![aid] = out.n]
         /\ results' = Append(results, <<aid, out.n>>)
         /\ UNCHANGED pipe_pc

\* Lines 356-373 and 379-385: the count (0 after a RequestException or a
\* body that is no JSON) goes to the cache and to results; an exception
\* int() raises leaves both without the appid.
ReviewDone(aid, out) ==
    IF out.kind = "bad-total"
    THEN UNCHANGED <<results, reviews_cache, pipe_pc>>
    ELSE /\ reviews_cache' = [reviews_cache EXCEPT ![aid] = out.n]
         /\ results' = Append(results, <<aid, out.n>>)
         /\ UNCHANGED pipe_pc

\* Mutant: the pool starts a thread for every submitted call.
PoolHasFree_Unbounded == TRUE

\* Line 377: ThreadPoolExecutor(max_workers=JP_REVIEW_WORKERS).
PoolHasFree == Cardinality(running) < JP_REVIEW_WORKERS

\* Line 378: a free worker of the pool takes the next submitted appid.
ReviewStart ==
    /\ pipe_pc = "reviews"
    /\ futs # <<>>
    /\ PoolHasFree
    /\ running' = running \cup {Head(futs)}
    /\ futs' = Tail(futs)
    /\ UNCHANGED <<pipe_pc, scanVars, mapVars, detailVars, enrichVars, results, reviews_cache,
                   rev_ans, rev_reqs, review_calls, outVars>>
    /\ UNCHANGED nonPipeVars

\* Mutant: the cache is never found to hold an appid.
ReviewCached_Never(aid) == FALSE

\* Line 354: appid in _reviews_cache.
ReviewCached(aid) == reviews_cache[aid] # NoCount

\* Lines 353-373 and 379-385: one call ends; its count goes to the cache
\* and to results, or its exception leaves both without the appid.
ReviewFinish ==
    /\ pipe_pc = "reviews"
    /\ \E aid \in running :
          /\ running' = running \ {aid}
          /\ IF ReviewCached(aid)
             THEN /\ results' = Append(results, <<aid, reviews_cache[aid]>>)
                  /\ UNCHANGED <<reviews_cache, rev_ans, rev_reqs, pipe_pc>>
             ELSE \E out \in ReviewOutcomes(aid) :
                     /\ rev_ans' = [rev_ans EXCEPT ![aid] = out]
                     /\ rev_reqs' = [rev_reqs EXCEPT ![aid] = @ + 1]
                     /\ ReviewDone(aid, out)
    /\ UNCHANGED <<scanVars, mapVars, detailVars, enrichVars, futs, review_calls, outVars>>
    /\ UNCHANGED nonPipeVars

\* The order of the names that occur, as str compares them.
NameOrd(name) ==
    IF name = "" THEN 0 ELSE IF name = "A" THEN 1 ELSE IF name = "B" THEN 2 ELSE 3

\* float("inf") of line 539, above every timestamp.
Inf == 1000000

\* Mutant: an entry without expiry comes first.
ExpiryKey_NoneFirst(dt) == IF dt.known THEN <<1, Instant(dt)>> ELSE <<0, Inf>>

\* Line 539: expiry_key.
ExpiryKey(dt) == IF dt.known THEN <<0, Instant(dt)>> ELSE <<1, Inf>>

\* Line 540: the key of the sort, its tuples laid flat.
SortKey(x) ==
    <<0 - x.reviews_jp, 0 - x.off, ExpiryKey(x.expiry_jst)[1], ExpiryKey(x.expiry_jst)[2],
      x.final, NameOrd(x.name)>>

\* a < b of two tuples of one length
TupleLt(a, b) ==
    \E k \in 1 .. Len(a) : a[k] < b[k] /\ \A m \in 1 .. k - 1 : a[m] = b[m]

\* Mutant: an element goes before the elements whose key equals its own.
Insert_BeforeEquals(sorted, x) ==
    LET n == Cardinality({k \in 1 .. Len(sorted) : TupleLt(SortKey(sorted[k]), SortKey(x))})
    IN SubSeq(sorted, 1, n) \o <<x>> \o SubSeq(sorted, n + 1, Len(sorted))

\* list.sort is stable: an element goes behind the elements of the sorted
\* run whose key is not greater than its own.
Insert(sorted, x) ==
    LET n == Cardinality({k \in 1 .. Len(sorted) : ~TupleLt(SortKey(x), SortKey(sorted[k]))})
    IN SubSeq(sorted, 1, n) \o <<x>> \o SubSeq(sorted, n + 1, Len(sorted))

\* Line 540: rows.sort(key=...).
RECURSIVE RankRows(_)
RankRows(xs) ==
    IF xs = <<>> THEN <<>>
    ELSE Insert(RankRows(SubSeq(xs, 1, Len(xs) - 1)), xs[Len(xs)])

\* Line 533: jp_map.get(appid, 0).
CountOf(jp_map, appid) == IF HasKey(jp_map, appid) THEN Get(jp_map, appid) ELSE 0

\* Mutant: the threshold itself is not enough.
Eligible_Above(n) == n > MIN_JP_REVIEWS

\* Line 534.
Eligible(n) == n >= MIN_JP_REVIEWS

WithReviews(e, n) ==
    [appid |-> e.appid, name |-> e.name, initial |-> e.initial, final |-> e.final,
     off |-> e.off, expiry_jst |-> e.expiry_jst, reviews_jp |-> n]

\* Mutant: the counts are taken in the order the calls completed, the
\* k-th count for the k-th item.
RowsOf_Zipped(items, jp_map) ==
    LET count(k) == IF k <= Len(jp_map) THEN jp_map[k][2] ELSE 0
        counted == [k \in 1 .. Len(items) |-> WithReviews(items[k], count(k))]
        passes(e) == Eligible(e.reviews_jp)
    IN SelectSeq(counted, passes)

\* Lines 532-537.
RowsOf(items, jp_map) ==
    LET passes(e) == Eligible(CountOf(jp_map, e.appid))
        counted(e) == WithReviews(e, CountOf(jp_map, e.appid))
    IN MapSeq(SelectSeq(items, passes), counted)

\* Lines 386 and 531-540: the pool is done, fetch_jp_reviews_parallel
\* returns results; rows filtered and sorted.
FilterAndRank ==
    /\ pipe_pc = "reviews"
    /\ futs = <<>>
    /\ running = {}
    /\ rows' = RankRows(RowsOf(prelim, results))
    /\ pipe_pc' = "output"
    /\ UNCHANGED <<scanVars, mapVars, detailVars, enrichVars, reviewVars, texts>>
    /\ UNCHANGED nonPipeVars

\* A line of a unit's text; the fixed Japanese texts are named in English.
Line(tag, s, a, b, c) ==
    [tag |-> tag, s |-> s, a |-> a, b |-> b, c |-> c, yen |-> <<>>]
Head1 == Line("head1", "", 0, 0, 0)
Blank == Line("", "", 0, 0, 0)
Hashtag == Line("#hashtag", "", 0, 0, 0)
Continues == Line("continues", "", 0, 0, 0)
NoDealsFound == Line("no deals found", "", 0, 0, 0)
ResolutionFailed ==
    Line("appid resolution failed", "", 0, 0, 0)

\* strftime("%m/%d %H:%M") of a JST datetime: the day (counted from today)
\* and the hour; the offset is not printed.
Strftime(dt) == <<dt.clock \div DAY_HOURS, dt.clock % DAY_HOURS>>
Head2 == Line("head2", "", 0, Strftime(WinStart)[1] * 100 + Strftime(WinStart)[2],
              Strftime(WinEnd)[1] * 100 + Strftime(WinEnd)[2])

\* Lines 388-390: f"{int(y):,}", the digits in groups of three.
THOUSAND == 1000
RECURSIVE fmt_yen(_)
fmt_yen(y) ==
    IF y < THOUSAND THEN <<y>> ELSE Append(fmt_yen(y \div THOUSAND), y % THOUSAND)

\* Lines 392-400.
compose_item_lines(entry) ==
    << Line("name", entry.name, 0, 0, 0),
       [Line("price", "", 0, 0, entry.off)
           EXCEPT !.yen = <<fmt_yen(entry.initial), fmt_yen(entry.final)>>],
       IF entry.expiry_jst.known
       THEN Line("ends", "known", Strftime(entry.expiry_jst)[1], Strftime(entry.expiry_jst)[2], 0)
       ELSE Line("ends", "unknown", 0, 0, 0),
       Line("link", "", entry.appid, 0, 0) >>

\* Lines 586-588: the lines of each row and an empty line, row after row
\* (every row gives as many lines).
ItemLines(chunk_rows) ==
    LET block(r) == compose_item_lines(r) \o <<Blank>>
        width == IF chunk_rows = <<>> THEN 1 ELSE Len(block(chunk_rows[1]))
    IN [j \in 1 .. width * Len(chunk_rows) |->
           block(chunk_rows[((j - 1) \div width) + 1])[((j - 1) % width) + 1]]

\* Mutant: no unit is taken for the last one.
build_tweet_text_NeverLast(chunk_rows, is_last) ==
    <<Head1, Head2, Blank>> \o ItemLines(chunk_rows) \o <<Hashtag>> \o <<Continues>>

\* Lines 582-592.
build_tweet_text(chunk_rows, is_last) ==
    <<Head1, Head2, Blank>> \o ItemLines(chunk_rows) \o <<Hashtag>>
        \o (IF is_last THEN <<>> ELSE <<Continues>>)

\* Lines 579-580.
CHUNK == 100
NumChunks(n) == (n + CHUNK - 1) \div CHUNK
Chunks(rs) ==
    [k \in 1 .. NumChunks(Len(rs)) |->
        SubSeq(rs, (k - 1) * CHUNK + 1, Min(k * CHUNK, Len(rs)))]

\* Lines 594-595.
Texts(rs) ==
    LET chunks == Chunks(rs)
    IN [idx \in 1 .. Len(chunks) |-> build_tweet_text(chunks[idx], idx = Len(chunks))]

\* Mutant: the message does not look at deals.
EmptyMessage_Same(ds) == NoDealsFound

\* Lines 560-563.
EmptyMessage(ds) == IF ds = <<>> THEN NoDealsFound ELSE ResolutionFailed

\* Lines 557-565: text_single.
TextSingle(ds) == <<Head1, Head2, Blank, EmptyMessage(ds), Hashtag>>

\* Lines 555-595: the units of the run.
BuildTexts ==
    /\ pipe_pc = "output"
    /\ texts' = IF rows = <<>> THEN <<TextSingle(deals)>> ELSE Texts(rows)
    /\ pipe_pc' = "built"
    /\ UNCHANGED <<scanVars, mapVars, detailVars, enrichVars, reviewVars, rows>>
    /\ UNCHANGED nonPipeVars

InitPipe ==
    /\ HttpParked
    /\ RankParked
    /\ PartParked
    /\ PostParked
    /\ WishParked
    /\ pipe_pc = "scan"
    /\ sort_idx = 1 /\ offset = 0 /\ too_far_pages = 0 /\ used_sort = 0
    /\ pages_left = MaxPages /\ seen_in = 0 /\ deals = <<>> /\ scan_log = <<>>
    /\ itad_ids = <<>> /\ mapping = <<>> /\ id2appid = <<>> /\ target_appids = <<>>
    /\ ids = <<>> /\ details_cache = EmptyMap /\ details_map = EmptyMap
    /\ skipped = <<>> /\ failed = {} /\ fetched = <<>> /\ batch_calls = 0
    /\ prelim = <<>> /\ futs = <<>> /\ running = {}
    /\ results = <<>> /\ reviews_cache = NoCounts
    /\ rev_ans = [a \in AppIds |-> NoAnswer]
    /\ rev_reqs = [a \in AppIds |-> 0] /\ review_calls = 0
    /\ rows = <<>> /\ texts = <<>>

NextPipe ==
    \/ ScanPage
    \/ ScanHttpError
    \/ ScanCrash
    \/ MapIds
    \/ MapCrash
    \/ DetailStep
    \/ DetailSkip
    \/ Enrich
    \/ ReviewStart
    \/ ReviewFinish
    \/ FilterAndRank
    \/ BuildTexts

SpecPipe == InitPipe /\ [][NextPipe]_vars

----------------------------------------------------------------------------
\* fetch_jp_reviews_parallel called again and again by one process, the
\* module-level _reviews_cache living on between the calls.  pipe_pc is
\* "reviews" inside a call and "output" when the caller has its result.

MaxReviewCalls == 2   \* calls of fetch_jp_reviews_parallel in the process
MaxReviewIds == 3     \* appids handed to one call

\* The entry main() holds for an appid it submits.
ReviewEntry(aid) == Entry(aid, CHOOSE d \in Payloads(aid) : Keeps(d))
\* The appids of one call, no appid twice (lines 494-497 and 530).
ReviewInputs ==
    {a \in SeqsUpTo(AppIds, MaxReviewIds) :
        \A j, k \in 1 .. Len(a) : a[j] = a[k] => j = k}

InitReview ==
    /\ HttpParked
    /\ RankParked
    /\ PartParked
    /\ PostParked
    /\ WishParked
    /\ pipe_pc = "reviews"
    /\ sort_idx = 1 /\ offset = 0 /\ too_far_pages = 0 /\ used_sort = 0
    /\ pages_left = 0 /\ seen_in = 0 /\ deals = <<>> /\ scan_log = <<>>
    /\ itad_ids = <<>> /\ mapping = <<>> /\ id2appid = <<>> /\ target_appids = <<>>
    /\ ids = <<>> /\ details_cache = EmptyMap /\ details_map = EmptyMap
    /\ skipped = <<>> /\ failed = {} /\ fetched = <<>> /\ batch_calls = 0
    /\ \E a \in ReviewInputs :
          /\ prelim = MapSeq(a, ReviewEntry)
          /\ futs = a
    /\ running = {}
    /\ results = <<>> /\ reviews_cache = NoCounts
    /\ rev_ans = [a \in AppIds |-> NoAnswer]
    /\ rev_reqs = [a \in AppIds |-> 0] /\ review_calls = 1
    /\ rows = <<>> /\ texts = <<>>

\* Lines 375-378: the function entered again, results empty, the appids
\* submitted.
ReviewCall ==
    /\ pipe_pc = "output"
    /\ review_calls < MaxReviewCalls
    /\ \E a \in ReviewInputs :
          /\ prelim' = MapSeq(a, ReviewEntry)
          /\ futs' = a
    /\ results' = <<>>
    /\ review_calls' = review_calls + 1
    /\ pipe_pc' = "reviews"
    /\ UNCHANGED <<scanVars, mapVars, detailVars, running, reviews_cache, rev_ans, rev_reqs,
                   outVars>>
    /\ UNCHANGED nonPipeVars

NextReview ==
    \/ ReviewCall
    \/ ReviewStart
    \/ ReviewFinish
    \/ FilterAndRank

SpecReview == InitReview /\ [][NextReview]_vars

\* The pool's workers run: a free worker takes a submitted call, a call
\* that runs ends (_get_with_retry returns or raises), and the with
\* block of line 377 is left once every call has ended.
\* One call of fetch_jp_reviews_parallel, from its entry to the caller's
\* use of what it returned.
NextReviewOnce ==
    \/ ReviewStart
    \/ ReviewFinish
    \/ FilterAndRank
\* The step of FilterAndRank seen from pipe_pc alone: the with block of
\* line 377 is left and the function returns (line 386).  No other action
\* takes pipe_pc from "reviews" to "output".
PoolLeft ==
    /\ pipe_pc = "reviews"
    /\ futs = <<>>
    /\ running = {}
    /\ pipe_pc' = "output"
SpecReviewFair ==
    /\ InitReview
    /\ [][NextReviewOnce]_vars
    /\ WF_vars(ReviewStart)
    /\ WF_vars(ReviewFinish)
    /\ WF_pipe_pc(PoolLeft)

----------------------------------------------------------------------------
\* list_steam_deals_expiring_window alone, read against a service that has
\* more pages to give.

MaxScanPages == 4  \* page requests the catalog service answers in one scan

InitScan ==
    /\ HttpParked
    /\ RankParked
    /\ PartParked
    /\ PostParked
    /\ WishParked
    /\ pipe_pc = "scan"
    /\ sort_idx = 1 /\ offset = 0 /\ too_far_pages = 0 /\ used_sort = 0
    /\ pages_left = MaxScanPages /\ seen_in = 0 /\ deals = <<>> /\ scan_log = <<>>
    /\ itad_ids = <<>> /\ mapping = <<>> /\ id2appid = <<>> /\ target_appids = <<>>
    /\ ids = <<>> /\ details_cache = EmptyMap /\ details_map = EmptyMap
    /\ skipped = <<>> /\ failed = {} /\ fetched = <<>> /\ batch_calls = 0
    /\ prelim = <<>> /\ futs = <<>> /\ running = {}
    /\ results = <<>> /\ reviews_cache = NoCounts
    /\ rev_ans = [a \in AppIds |-> NoAnswer]
    /\ rev_reqs = [a \in AppIds |-> 0] /\ review_calls = 0
    /\ rows = <<>> /\ texts = <<>>

NextScan ==
    \/ ScanPage
    \/ ScanHttpError
    \/ ScanCrash

SpecScan == InitScan /\ [][NextScan]_vars

----------------------------------------------------------------------------
\* steam_appdetails_batch called again and again by one process, the
\* module-level _details_cache living on between the calls.  pipe_pc is
\* "details" inside a call and "prelim" when the caller has its result.

MaxBatches == 3    \* calls of steam_appdetails_batch in the process
MaxAppids == 2     \* appids handed to one call

InitBatch ==
    /\ HttpParked
    /\ RankParked
    /\ PartParked
    /\ PostParked
    /\ WishParked
    /\ pipe_pc = "prelim"
    /\ sort_idx = 1 /\ offset = 0 /\ too_far_pages = 0 /\ used_sort = 0
    /\ pages_left = 0 /\ seen_in = 0 /\ deals = <<>> /\ scan_log = <<>>
    /\ itad_ids = <<>> /\ mapping = <<>> /\ id2appid = <<>> /\ target_appids = <<>>
    /\ ids = <<>> /\ details_cache = EmptyMap /\ details_map = EmptyMap
    /\ skipped = <<>> /\ failed = {} /\ fetched = <<>> /\ batch_calls = 0
    /\ prelim = <<>> /\ futs = <<>> /\ running = {}
    /\ results = <<>> /\ reviews_cache = NoCounts
    /\ rev_ans = [a \in AppIds |-> NoAnswer]
    /\ rev_reqs = [a \in AppIds |-> 0] /\ review_calls = 0
    /\ rows = <<>> /\ texts = <<>>

\* Lines 319-323: the function entered with appids (target_appids is the
\* argument), ids and result and skipped set up; with no id to fetch the
\* loop is passed over and the empty result returned.
BatchCall ==
    /\ pipe_pc = "prelim"
    /\ batch_calls < MaxBatches
    /\ \E appids \in SeqsUpTo(AppIds \cup {0}, MaxAppids) :
          /\ target_appids' = appids
          /\ ids' = BatchIds(appids)
          /\ pipe_pc' = IF BatchIds(appids) = <<>> THEN "prelim" ELSE "details"
    /\ batch_calls' = batch_calls + 1
    /\ details_map' = EmptyMap
    /\ skipped' = <<>> /\ failed' = {} /\ fetched' = <<>>
    /\ UNCHANGED <<scanVars, itad_ids, mapping, id2appid, details_cache>>
    /\ UNCHANGED <<laterVars, nonPipeVars>>

NextBatch ==
    \/ BatchCall
    \/ DetailStep

SpecBatch == InitBatch /\ [][NextBatch]_vars

(***************************************************************************)
(* The ranking sort of line 540 on its own: rows drawn from a small set    *)
(* of entries whose keys differ in one part at a time or not at all.       *)
(***************************************************************************)

MaxRows == 3       \* rows handed to the sort

Row(appid, reviews_jp, off, expiry_jst, final, name) ==
    [appid |-> appid, name |-> name, initial |-> final, final |-> final, off |-> off,
     expiry_jst |-> expiry_jst, reviews_jp |-> reviews_jp]

Noon == Known([clock |-> 12, off |-> JST_OFFSET])
Night == Known([clock |-> 30, off |-> JST_OFFSET])

RankItems ==
    { Row(1, 40, 50, Noon, 990, "A"),
      Row(2, 40, 50, Noon, 990, "A"),     \* the key of row 1
      Row(3, 40, 50, None, 100, "A"),     \* no expiry, lower price
      Row(4, 40, 50, Night, 100, "A"),    \* later expiry, lower price
      Row(5, 40, 60, None, 990, "A"),     \* higher discount
      Row(6, 50, 0, None, 2000, "B"),     \* more reviews
      Row(7, 40, 50, Noon, 990, "B"),     \* the name differs
      Row(8, 40, 50, Noon, 450, "C") }    \* lower price, later name

\* prelim holds an appid once (lines 496-497), and so does rows.
DistinctAppids(xs) ==
    \A j, k \in 1 .. Len(xs) : xs[j].appid = xs[k].appid => j = k

InitRank ==
    /\ HttpParked
    /\ PipeParked
    /\ PartParked
    /\ PostParked
    /\ WishParked
    /\ rank_pc = "in"
    /\ rank_in \in {xs \in SeqsUpTo(RankItems, MaxRows) : DistinctAppids(xs)}
    /\ rank_once = <<>>
    /\ rank_twice = <<>>

\* Line 540.
RankOnce ==
    /\ rank_pc = "in"
    /\ rank_once' = RankRows(rank_in)
    /\ rank_pc' = "ranked"
    /\ UNCHANGED <<rank_in, rank_twice>>
    /\ UNCHANGED <<httpVars, pipeVars, partVars, postVars, wishVars>>

\* Line 540 again, on its own result.
RankAgain ==
    /\ rank_pc = "ranked"
    /\ rank_twice' = RankRows(rank_once)
    /\ rank_pc' = "reranked"
    /\ UNCHANGED <<rank_in, rank_once>>
    /\ UNCHANGED <<httpVars, pipeVars, partVars, postVars, wishVars>>

NextRank ==
    \/ RankOnce
    \/ RankAgain

SpecRank == InitRank /\ [][NextRank]_vars

(***************************************************************************)
(* The partition of lines 579-595 on its own, for ranked lists long        *)
(* enough to fill more than two units.                                     *)
(***************************************************************************)

MaxRanked == 201   \* rows handed to the partition

PartRow(k) == Row(k, 10, 50, None, 990, "A")

InitPart ==
    /\ HttpParked
    /\ PipeParked
    /\ RankParked
    /\ PostParked
    /\ WishParked
    /\ part_pc = "in"
    /\ part_rows \in {[k \in 1 .. n |-> PartRow(k)] : n \in 1 .. MaxRanked}
    /\ part_texts = <<>>

\* Lines 579-595.
Partition ==
    /\ part_pc = "in"
    /\ part_texts' = Texts(part_rows)
    /\ part_pc' = "built"
    /\ UNCHANGED part_rows
    /\ UNCHANGED <<httpVars, pipeVars, rankVars, postVars, wishVars>>

NextPart == Partition

SpecPart == InitPart /\ [][NextPart]_vars

----------------------------------------------------------------------------
\* The end of main(), lines 555-617: the units of texts (text_single alone
\* when rows is empty) previewed on stdout or posted as a thread.  rows,
\* deals and texts are what the stages before hand over; the other variables
\* of those stages stay parked.  The "[POST] ..." progress prints are left
\* out of printed.

\* reply_to=None, and prev_id before the first tweet.
NoReply == 0
\* Line 424: range(3).
REFRESH_TRIES == 3
\* bearer=None
NoBearer == "none"
\* Ids the service gives to created tweets (non-empty strings of digits).
TweetIds == {101, 102}
\* Numbers of rows handed over.
PostSizes == {0, 1, CHUNK, CHUNK + 1, MaxRanked}

InitPost ==
    /\ HttpParked
    /\ RankParked
    /\ PartParked
    /\ WishParked
    /\ pipe_pc = "built"
    /\ sort_idx = 1 /\ offset = 0 /\ too_far_pages = 0 /\ used_sort = 0
    /\ pages_left = 0 /\ seen_in = 0 /\ scan_log = <<>>
    /\ itad_ids = <<>> /\ mapping = <<>> /\ id2appid = <<>> /\ target_appids = <<>>
    /\ ids = <<>> /\ details_cache = <<>> /\ details_map = <<>>
    /\ skipped = <<>> /\ failed = {} /\ fetched = <<>> /\ batch_calls = 0
    /\ prelim = <<>> /\ futs = <<>> /\ running = {}
    /\ results = <<>> /\ reviews_cache = <<>> /\ rev_ans = <<>>
    /\ rev_reqs = <<>> /\ review_calls = 0
    /\ \E n \in PostSizes :
       \E ds \in SeqsUpTo(Catalog, 1) :
          /\ n > 0 => ds # <<>>
          /\ rows = [k \in 1 .. n |-> PartRow(k)]
          /\ deals = ds
          /\ texts = IF n = 0 THEN <<TextSingle(ds)>> ELSE Texts([k \in 1 .. n |-> PartRow(k)])
    /\ POST_TO_X \in BOOLEAN
    /\ post_pc = "main"
    /\ token_log = <<>> /\ bearer = NoBearer
    /\ next_unit = 1 /\ prev_id = NoReply
    /\ tweets = <<>> /\ printed = <<>> /\ exit_status = 0

\* Line 568: text_single printed as it is.
PrintSingle ==
    /\ post_pc = "main"
    /\ rows = <<>>
    /\ ~POST_TO_X
    /\ printed' = Append(printed, [part |-> 0, of |-> 0, text |-> texts[1]])
    /\ post_pc' = "returned"
    /\ UNCHANGED <<POST_TO_X, token_log, bearer, next_unit, prev_id, tweets, exit_status>>
    /\ UNCHANGED <<httpVars, pipeVars, rankVars, partVars, wishVars>>

\* Mutant: the parts are counted from zero.
PartIndex_FromZero(n) == n - 1

\* Line 599: enumerate(texts, 1).
PartIndex(n) == n

\* Lines 599-602: one turn of the preview loop, "--- Tweet Part i/k ---"
\* and then the text.
PreviewPart ==
    /\ post_pc = "main"
    /\ rows # <<>>
    /\ ~POST_TO_X
    /\ next_unit <= Len(texts)
    /\ printed' = Append(printed,
                         [part |-> PartIndex(next_unit), of |-> Len(texts), text |-> texts[next_unit]])
    /\ next_unit' = next_unit + 1
    /\ post_pc' = IF next_unit = Len(texts) THEN "returned" ELSE "main"
    /\ UNCHANGED <<POST_TO_X, token_log, bearer, prev_id, tweets, exit_status>>
    /\ UNCHANGED <<httpVars, pipeVars, rankVars, partVars, wishVars>>

\* Mutant: the exception is swallowed and the run goes on.
PostFailed_Swallowed ==
    /\ post_pc' = "main"
    /\ UNCHANGED exit_status

\* Lines 574-575 and 616-617: except Exception, then sys.exit(1).
PostFailed ==
    /\ post_pc' = "exited"
    /\ exit_status' = 1

\* Lines 403-446, entered at line 607 or, for text_single, at line 450:
\* one look of _x_refresh_access_token at its settings or one token request.
\* "no-config" = a setting is missing (no request is sent), "200" = the
\* token, "5xx" and "conn" are tried again, "other" = another status,
\* "bad-body" = a 200 whose body cannot be used.
RefreshOutcomes(n) ==
    IF n = 0 THEN {"no-config", "200", "5xx", "conn", "other", "bad-body"}
    ELSE {"200", "5xx", "conn", "other", "bad-body"}
RefreshStep ==
    /\ post_pc = "main"
    /\ POST_TO_X
    /\ bearer = NoBearer
    /\ Len(token_log) < REFRESH_TRIES
    /\ \E out \in RefreshOutcomes(Len(token_log)) :
          /\ token_log' = Append(token_log, out)
          /\ IF out = "200"
             THEN bearer' = "access" /\ UNCHANGED <<post_pc, exit_status>>
             ELSE IF out \in {"5xx", "conn"} /\ Len(token_log) + 1 < REFRESH_TRIES
             THEN UNCHANGED <<bearer, post_pc, exit_status>>
             ELSE PostFailed /\ UNCHANGED bearer
    /\ UNCHANGED <<POST_TO_X, next_unit, prev_id, tweets, printed>>
    /\ UNCHANGED <<httpVars, pipeVars, rankVars, partVars, wishVars>>

\* Mutant: every reply goes to the first tweet.
NextPrev_First(prev, tid) == IF prev = NoReply THEN tid ELSE prev

\* Lines 611 and 615: prev_id = first_id, prev_id = tid.
NextPrev(prev, tid) == tid

\* Lines 448-459 called at lines 572, 608 and 613: one tweet request for
\* texts[unit] with reply_to = prev_id.  "created" = status 200 or 201 with
\* the id of the tweet, "refused" = another status, "raised" =
\* requests.post raising or a body without data.id.
CreateTweet ==
    /\ post_pc = "main"
    /\ POST_TO_X
    /\ bearer # NoBearer
    /\ next_unit <= Len(texts)
    /\ \E out \in {"created", "refused", "raised"} :
       \E tid \in IF out = "created" THEN TweetIds ELSE {NoReply} :
          /\ tweets' = Append(tweets, [text |-> texts[next_unit], reply_to |-> prev_id,
                                       ok |-> out = "created", id |-> tid])
          /\ IF out = "created"
             THEN /\ prev_id' = NextPrev(prev_id, tid)
                  /\ next_unit' = next_unit + 1
                  /\ post_pc' = IF next_unit = Len(texts) THEN "returned" ELSE "main"
                  /\ UNCHANGED exit_status
             ELSE PostFailed /\ UNCHANGED <<next_unit, prev_id>>
    /\ UNCHANGED <<POST_TO_X, token_log, bearer, printed>>
    /\ UNCHANGED <<httpVars, pipeVars, rankVars, partVars, wishVars>>

NextPost ==
    \/ PrintSingle
    \/ PreviewPart
    \/ RefreshStep
    \/ CreateTweet

SpecPost == InitPost /\ [][NextPost]_vars

(***************************************************************************)
(* steam_wishlist_top20.py: the search pages are read into candidates,     *)
(* the metadata of each candidate is fetched, the coming_soon titles are   *)
(* sorted by rank, cut to TOP_N and rendered.                              *)
(***************************************************************************)
TOP_N == 20
SEARCH_PAGES == 6

MaxWishId == 24    \* appids the search pages name: 1 .. MaxWishId
MaxVaried == 1     \* appids at each end of 1 .. MaxWishId whose metadata request
                   \* can end in every way; the others are coming_soon titles

WishIds == 1 .. MaxWishId
Run(lo, hi) == [k \in 1 .. hi - lo + 1 |-> lo + k - 1]

\* What data-ds-appid finds in the results_html of one page: nothing, a
\* run of appids, a run that overlaps it, a page that names an appid
\* twice, and a page long enough to fill the candidate list at once.
WishPages ==
    {<<>>, Run(1, 12), Run(9, MaxWishId), <<2, 1, 2>>, Run(1, TOP_N * 4)}

\* The ways the appdetails request of lines 124-135 can end: data of a
\* title that is coming_soon, data of a released title, data without
\* release_date; success false or an exception (skipped).
WishVaried == {aid \in WishIds : aid <= MaxVaried \/ aid > MaxWishId - MaxVaried}
WishOutcomes(aid) ==
    IF aid \in WishVaried THEN {"soon", "released", "no-release-date", "skipped"}
    ELSE {"soon"}
NoFlag == "absent"
WishData(out) ==
    [coming_soon |-> IF out = "soon" THEN "true"
                     ELSE IF out = "released" THEN "false" ELSE NoFlag]

InitWish ==
    /\ HttpParked
    /\ PipeParked
    /\ RankParked
    /\ PartParked
    /\ PostParked
    /\ wl_pc = "search" /\ wl_page = 0 /\ candidates = <<>> /\ wl_next = 1
    /\ details = <<>> /\ wl_skipped = <<>> /\ wl_rows = <<>> /\ wl_text = <<>>
    /\ wl_exit = 0

\* Lines 98-101: the appids of a page not seen before, in page order.
Collected(appids, page) ==
    LET fresh == {k \in 1 .. Len(page) :
                     /\ \A m \in 1 .. Len(appids) : appids[m] # page[k]
                     /\ \A m \in 1 .. k - 1 : page[m] # page[k]}
        nth == [j \in 1 .. Cardinality(fresh) |->
                   CHOOSE k \in fresh : Cardinality({m \in fresh : m < k}) = j - 1]
    IN appids \o [j \in 1 .. Cardinality(fresh) |-> page[nth[j]]]

\* Lines 86-114 and 236-238: one pass of the loop; fetch_popular_wishlist_appids
\* returns after SEARCH_PAGES pages or with TOP_N * 4 appids, and main()
\* exits when it returned none.
WishSearchPage ==
    /\ wl_pc = "search"
    /\ \E page \in WishPages :
          LET appids == Collected(candidates, page)
              returns == Len(appids) >= TOP_N * 4 \/ wl_page + 1 = SEARCH_PAGES
          IN /\ candidates' = appids
             /\ wl_page' = wl_page + 1
             /\ wl_pc' = IF ~returns THEN "search"
                         ELSE IF appids = <<>> THEN "exited" ELSE "details"
             /\ wl_exit' = IF returns /\ appids = <<>> THEN 1 ELSE 0
    /\ UNCHANGED <<wl_next, details, wl_skipped, wl_rows, wl_text>>
    /\ UNCHANGED nonWishVars

\* Lines 72-73 and 92-93: the request or r.json() raises; nothing catches
\* it and the process ends with a traceback.
WishSearchCrash ==
    /\ wl_pc = "search"
    /\ wl_pc' = "exited"
    /\ wl_exit' = 1
    /\ UNCHANGED <<wl_page, candidates, wl_next, details, wl_skipped, wl_rows, wl_text>>
    /\ UNCHANGED nonWishVars

\* Lines 121-135: one pass of the loop of steam_appdetails_batch.
\* _details_cache holds what details holds: the process makes one call.
WishDetail ==
    /\ wl_pc = "details"
    /\ wl_next <= Len(candidates)
    /\ LET aid == candidates[wl_next]
       IN IF HasKey(details, aid)
          THEN UNCHANGED <<details, wl_skipped>>
          ELSE \E out \in WishOutcomes(aid) :
                  IF out = "skipped"
                  THEN /\ wl_skipped' = Append(wl_skipped, aid)
                       /\ UNCHANGED details
                  ELSE /\ details' = Append(details, <<aid, WishData(out)>>)
                       /\ UNCHANGED wl_skipped
    /\ wl_next' = wl_next + 1
    /\ UNCHANGED <<wl_pc, wl_page, candidates, wl_rows, wl_text, wl_exit>>
    /\ UNCHANGED nonWishVars

\* Line 242: rank_index, the position of an appid in candidates from 0;
\* line 273: 10**9 for an appid that is not in it.
RankIndex(cands, aid) ==
    IF \E k \in 1 .. Len(cands) : cands[k] = aid
    THEN (CHOOSE k \in 1 .. Len(cands) : cands[k] = aid /\ \A m \in k + 1 .. Len(cands) : cands[m] # aid) - 1
    ELSE 1000000000

\* Mutant: every title fetched passes.
ComingSoon_Any(d) == TRUE

\* Lines 245-246: rd.get("coming_soon") is truthy.
ComingSoon(d) == d.coming_soon = "true"

\* Lines 243-274: prelim, in the order of details.items().
WishPrelim(dets, cands) ==
    LET soon(pair) == ComingSoon(pair[2])
        row(pair) == [appid |-> pair[1], rank |-> RankIndex(cands, pair[1])]
    IN MapSeq(SelectSeq(dets, soon), row)

\* Line 280: sorted(prelim, key=rank).  sorted() is stable: a row comes
\* behind the rows of smaller rank and behind the rows of its own rank
\* that stood before it.
WishSorted(xs) ==
    LET place == [j \in 1 .. Len(xs) |->
                     1 + Cardinality({m \in 1 .. Len(xs) :
                                         \/ xs[m].rank < xs[j].rank
                                         \/ xs[m].rank = xs[j].rank /\ m < j})]
    IN [p \in 1 .. Len(xs) |-> xs[CHOOSE j \in 1 .. Len(xs) : place[j] = p]]

\* Mutant: the last TOP_N rows are kept.
TopN_Last(xs) == SubSeq(xs, Max(1, Len(xs) - TOP_N + 1), Len(xs))

\* Line 280: [:TOP_N].
TopN(xs) == SubSeq(xs, 1, Min(Len(xs), TOP_N))

\* Lines 289-301: the block of one row; its title line carries the name,
\* its link line the appid.
WishBlock(e) == [title |-> e.appid, link |-> e.appid]

\* Lines 242-305: prelim, rows and the text; main() returns at line 277
\* when no title is coming_soon.
WishBuild ==
    /\ wl_pc = "details"
    /\ wl_next > Len(candidates)
    /\ LET prelim_ == WishPrelim(details, candidates)
       IN IF prelim_ = <<>>
          THEN /\ wl_pc' = "returned"
               /\ UNCHANGED <<wl_rows, wl_text>>
          ELSE /\ wl_rows' = TopN(WishSorted(prelim_))
               /\ wl_text' = MapSeq(TopN(WishSorted(prelim_)), WishBlock)
               /\ wl_pc' = "post"
    /\ UNCHANGED <<wl_page, candidates, wl_next, details, wl_skipped, wl_exit>>
    /\ UNCHANGED nonWishVars

\* Lines 308-315: the text printed or tweeted, or the tweet failing and
\* sys.exit(1).
WishPost ==
    /\ wl_pc = "post"
    /\ \E ok \in BOOLEAN :
          /\ wl_pc' = IF ok THEN "returned" ELSE "exited"
          /\ wl_exit' = IF ok THEN 0 ELSE 1
    /\ UNCHANGED <<wl_page, candidates, wl_next, details, wl_skipped, wl_rows, wl_text>>
    /\ UNCHANGED nonWishVars

NextWish ==
    \/ WishSearchPage
    \/ WishSearchCrash
    \/ WishDetail
    \/ WishBuild
    \/ WishPost

SpecWish == InitWish /\ [][NextWish]_vars

(***************************************************************************)
(* Claims about the throttled HTTP client.                                 *)
(***************************************************************************)

\* C1: for each endpoint class, any two successive requests of the class
\* are issued at least STEAM_MIN_INTERVAL[class] apart, for every
\* interleaving of the callers, retrying callers included.
C1_RequestsSpaced ==
    \A k \in Kinds : req_gap[k] >= STEAM_MIN_INTERVAL[k]

\* Where a call stands, as a number that grows along the code of
\* _get_with_retry.
PcRank(p) ==
    IF p = "final_sleep" THEN 0 ELSE IF p = "throttle" THEN 1
    ELSE IF p = "thr_sleep" THEN 2 ELSE IF p = "get" THEN 3
    ELSE IF p = "handle" THEN 4 ELSE IF p = "backoff" THEN 5 ELSE 6
Rank(t) == i[t] * 8 + PcRank(pc[t])
Sent(t) == pc[t] \in {"get", "handle", "backoff"} \cup Done
IsErrorOutcome(r) == r.exc # "none" \/ (r.status >= 400 /\ r.status < 600)

\* C2: _get_with_retry always terminates.  A call has issued one request
\* per attempt begun, at most max_retry inside the loop and one after it,
\* so never more than max_retry + 1; it returns at the first 200; the
\* attempt after the loop ends the call, raising on an error; every step
\* of a call moves it forward, and a running call is never stuck.
C2_StateOk ==
    /\ \A t \in Callers :
          /\ i[t] <= max_retry
          /\ nreq[t] = (IF pc[t] = "idle" THEN 0
                        ELSE i[t] + (IF Sent(t) THEN 1 ELSE 0))
          /\ nreq[t] <= max_retry + 1
    /\ (\E t \in Callers : pc[t] # "idle") => ENABLED <<NextHttp>>_vars
C2_StepOk ==
    \A t \in Callers :
        /\ (pc[t] # "idle" /\ pc'[t] # pc[t] /\ pc'[t] # "idle") => Rank(t)' > Rank(t)
        /\ (pc[t] = "handle" /\ pc'[t] # "handle" /\ resp[t].exc = "none"
               /\ resp[t].status = 200) => pc'[t] = "returned"
        /\ (pc[t] = "handle" /\ pc'[t] # "handle" /\ i[t] = max_retry)
              => pc'[t] = (IF IsErrorOutcome(resp[t]) THEN "raised" ELSE "returned")
        /\ (pc[t] \in Done /\ pc'[t] # pc[t]) => pc'[t] = "idle"
C2_Terminates == [](C2_StateOk) /\ [][C2_StepOk]_vars
C2_Witness ==
    \E t \in Callers : pc[t] = "raised" /\ nreq[t] = max_retry + 1

ClientError(r) == r.exc = "none" /\ r.status >= 400 /\ r.status < 500 /\ r.status # 429

\* C3: on a response with a client-error status other than 429 the call
\* raises at once: no backoff sleep is begun, the throttle clock is not
\* reset, and the call issues no further request (a single request when
\* the error answers the first one).
C3_HandleOk ==
    \A t \in Callers :
        /\ (pc[t] = "handle" /\ ClientError(resp[t]) /\ pc'[t] # "handle")
              => /\ pc'[t] = "raised"
                 /\ sleep_left'[t] = 0
                 /\ since_ts' = since_ts
                 /\ nreq'[t] = nreq[t]
                 /\ i[t] = 0 => nreq'[t] = 1
        /\ (pc[t] = "raised" /\ pc'[t] # "raised")
              => pc'[t] = "idle" /\ since_ts' = since_ts /\ since_req' = since_req
C3_ClientErrorRaisesAtOnce == [][C3_HandleOk]_vars
C3_Witness ==
    \E t \in Callers :
        pc[t] = "raised" /\ resp[t].exc = "none" /\ resp[t].status \in {403, 404}
           /\ nreq[t] = 1

(***************************************************************************)
(* Claims about the pipeline.                                              *)
(***************************************************************************)

\* The item lines of a unit, and of all units in unit order.
IsItemLine(l) == l.tag \in {"name", "price", "ends", "link"}
IsLink(l) == l.tag = "link"
LinkId(l) == l.a
RECURSIVE ItemBlocks(_)
ItemBlocks(ts) ==
    IF ts = <<>> THEN <<>>
    ELSE ItemBlocks(SubSeq(ts, 1, Len(ts) - 1)) \o SelectSeq(ts[Len(ts)], IsItemLine)
\* The appids of the items the units show, in order.
EmittedIds(ts) == MapSeq(SelectSeq(ItemBlocks(ts), IsLink), LinkId)
Occurs(x, xs) == \E k \in 1 .. Len(xs) : xs[k] = x
HasLine(l, unit) == \E k \in 1 .. Len(unit) : unit[k] = l

\* C4: every deal the scan holds and returns is a game whose expiry is a
\* time from start to end, both included, and every such entry read under
\* the sort key is held; every expiry an entry of prelim or rows carries,
\* and every expiry a unit prints, lies from start to end.
C4_ExpiryOk(dt) == dt.known => 0 <= dt.clock - dt.off /\ dt.clock - dt.off <= 24
C4_PrintedOk(l) ==
    l.tag = "ends" /\ l.s = "known" =>
        WinStart.clock <= l.a * 24 + l.b /\ l.a * 24 + l.b <= WinEnd.clock
C4_WindowKept ==
    /\ \A k \in 1 .. Len(deals) : WantedEntry(deals[k])
    /\ Len(deals) = seen_in
    /\ \A k \in 1 .. Len(prelim) : C4_ExpiryOk(prelim[k].expiry_jst)
    /\ \A k \in 1 .. Len(rows) : C4_ExpiryOk(rows[k].expiry_jst)
    /\ \A u \in 1 .. Len(texts) : \A k \in 1 .. Len(texts[u]) : C4_PrintedOk(texts[u][k])
C4_Witness ==
    /\ pipe_pc = "built"
    /\ \E j, k \in 1 .. Len(deals) :
          /\ deals[j].expiry = Iso(0, 0)
          /\ deals[k].expiry = Iso(33, 9)
    /\ \E u \in 1 .. Len(texts) : HasLine(Line("ends", "known", 1, 9, 0), texts[u])

\* C5: an appid is shown in the units exactly when its metadata passed the
\* enrichment (a game, free or priced) and its review count, 0 when the
\* review map has none, is at least MIN_JP_REVIEWS; with the counts 25, 5
\* and 40 for three enriched items the units show the item with 40 and
\* then the item with 25.
C5_Passed(aid) ==
    /\ Occurs(aid, target_appids)
    /\ aid \in AppIds
    /\ details_map[aid] # NoData
    /\ details_map[aid].type \in {"game", "Game"}
    /\ details_map[aid].is_free \/ details_map[aid].po.present
C5_Count(aid) ==
    IF \E k \in 1 .. Len(results) : results[k][1] = aid
    THEN results[CHOOSE k \in 1 .. Len(results) : results[k][1] = aid][2]
    ELSE 0
C5_Scenario ==
    /\ \A aid \in AppIds : C5_Passed(aid)
    /\ C5_Count(10) = 25 /\ C5_Count(20) = 5 /\ C5_Count(30) = 40
C5_EmittedIffEligible ==
    pipe_pc = "built" =>
        /\ \A aid \in AppIds \cup {0} :
              Occurs(aid, EmittedIds(texts)) <=>
                  C5_Passed(aid) /\ C5_Count(aid) >= MIN_JP_REVIEWS
        /\ \A aid \in AppIds :
              (\A k \in 1 .. Len(results) : results[k][1] # aid) =>
                  ~Occurs(aid, EmittedIds(texts))
        /\ C5_Scenario => EmittedIds(texts) = <<30, 10>>
C5_Witness ==
    /\ pipe_pc = "built"
    /\ C5_Scenario
    /\ EmittedIds(texts) = <<30, 10>>

\* C9: a run whose rows are empty builds one unit, without item lines and
\* without the continuation line; the unit carries the "resolution failed"
\* line when deals is not empty and the "no deals found" line when it is.
C9_EmptyRun ==
    pipe_pc = "built" /\ rows = <<>> =>
        /\ Len(texts) = 1
        /\ ItemBlocks(texts) = <<>>
        /\ ~HasLine(Continues, texts[1])
        /\ deals # <<>> => HasLine(ResolutionFailed, texts[1]) /\ ~HasLine(NoDealsFound, texts[1])
        /\ deals = <<>> => HasLine(NoDealsFound, texts[1]) /\ ~HasLine(ResolutionFailed, texts[1])
C9_Witness ==
    /\ pipe_pc = "built"
    /\ rows = <<>>
    /\ deals # <<>>
    /\ texts = <<TextSingle(deals)>>
    /\ HasLine(ResolutionFailed, texts[1])

\* C10: a metadata request that ends in a skip does not end the batch: the
\* batch goes on with the next id, the step touches the result and the
\* cache of no other id, every id of the batch is in the result or among
\* the skipped and never both, and a skipped id is in no cache, in no
\* later stage and in no unit.
C10_StateOk ==
    \A aid \in failed :
        /\ details_map[aid] = NoData
        /\ details_cache[aid] = NoData
        /\ \A k \in 1 .. Len(prelim) : prelim[k].appid # aid
        /\ ~Occurs(aid, futs)
        /\ aid \notin running
        /\ \A k \in 1 .. Len(results) : results[k][1] # aid
        /\ reviews_cache[aid] = NoCount
        /\ \A k \in 1 .. Len(rows) : rows[k].appid # aid
        /\ ~Occurs(aid, EmittedIds(texts))
C10_StepOk ==
    pipe_pc = "details" /\ ids # <<>> =>
        /\ pipe_pc' = IF Len(ids) > 1 THEN "details" ELSE "prelim"
        /\ ids' = Tail(ids)
        /\ \A b \in AppIds \ {Head(ids)} :
              /\ details_map'[b] = details_map[b]
              /\ details_cache'[b] = details_cache[b]
              /\ b \in failed' <=> b \in failed
        /\ failed' # failed => details_map' = details_map /\ details_cache' = details_cache
        /\ (details_map'[Head(ids)] # NoData) # (Head(ids) \in failed')
        /\ pipe_pc' = "prelim" =>
              \A k \in 1 .. Len(target_appids) :
                  target_appids[k] > 0 =>
                      (details_map'[target_appids[k]] # NoData) # (target_appids[k] \in failed')
C10_SkipIsNotFatal == [](C10_StateOk) /\ [][C10_StepOk]_vars
C10_Witness ==
    /\ pipe_pc = "built"
    /\ failed # {}
    /\ EmittedIds(texts) # <<>>

(***************************************************************************)
(* Claims about the ranking sort.                                          *)
(***************************************************************************)

\* key(a) <= key(b), part by part: more reviews first, then the higher
\* discount, then a known expiry before none and the earlier before the
\* later, then the lower price, then the name.
C6_ExpiryBefore(a, b) ==
    \/ a.expiry_jst.known /\ ~b.expiry_jst.known
    \/ /\ a.expiry_jst.known /\ b.expiry_jst.known
       /\ a.expiry_jst.clock - a.expiry_jst.off < b.expiry_jst.clock - b.expiry_jst.off
C6_ExpirySame(a, b) == ~C6_ExpiryBefore(a, b) /\ ~C6_ExpiryBefore(b, a)
C6_KeyLeq(a, b) ==
    \/ a.reviews_jp > b.reviews_jp
    \/ /\ a.reviews_jp = b.reviews_jp
       /\ \/ a.off > b.off
          \/ /\ a.off = b.off
             /\ \/ C6_ExpiryBefore(a, b)
                \/ /\ C6_ExpirySame(a, b)
                   /\ \/ a.final < b.final
                      \/ a.final = b.final /\ NameOrd(a.name) <= NameOrd(b.name)
Range(xs) == {xs[k] : k \in 1 .. Len(xs)}

\* C6: the sorted rows are the rows handed in, each once, and every row
\* is followed by a row whose key is not smaller.
C6_RankedByKey ==
    rank_pc # "in" =>
        /\ Len(rank_once) = Len(rank_in)
        /\ Range(rank_once) = Range(rank_in)
        /\ \A k \in 1 .. Len(rank_once) - 1 : C6_KeyLeq(rank_once[k], rank_once[k + 1])
C6_Witness ==
    /\ rank_pc = "ranked"
    /\ Len(rank_in) = MaxRows
    /\ rank_once # rank_in
    /\ \E j, k \in 1 .. Len(rank_once) :
          j < k /\ rank_once[j].expiry_jst.known /\ ~rank_once[k].expiry_jst.known
                /\ rank_once[j].final > rank_once[k].final

\* C7: sorting the sorted rows again leaves them as they are, rows of
\* equal keys included.
C7_RankIdempotent == rank_pc = "reranked" => rank_twice = rank_once
C7_Witness ==
    /\ rank_pc = "reranked"
    /\ rank_once # rank_in
    /\ \E j, k \in 1 .. Len(rank_once) :
          j < k /\ rank_once[j].appid = 2 /\ rank_once[k].appid = 1

(***************************************************************************)
(* Claims about the partition.                                             *)
(***************************************************************************)

C8_ItemsOf(unit) == MapSeq(SelectSeq(unit, IsLink), LinkId)
C8_Rendered(rs) ==
    [j \in 1 .. 4 * Len(rs) |-> compose_item_lines(rs[((j - 1) \div 4) + 1])[((j - 1) % 4) + 1]]

\* C8: n rows make ceil(n/100) units of 1 to 100 items each; the item
\* blocks of the units, read in unit order, are the blocks of the rows in
\* their order; the continuation line is on every unit but the last.
C8_Partitioned ==
    part_pc = "built" =>
        /\ Len(part_texts) * 100 >= Len(part_rows)
        /\ (Len(part_texts) - 1) * 100 < Len(part_rows)
        /\ \A u \in 1 .. Len(part_texts) :
              /\ Len(C8_ItemsOf(part_texts[u])) >= 1
              /\ Len(C8_ItemsOf(part_texts[u])) <= 100
              /\ HasLine(Continues, part_texts[u]) <=> u < Len(part_texts)
        /\ ItemBlocks(part_texts) = C8_Rendered(part_rows)
        /\ EmittedIds(part_texts) = [k \in 1 .. Len(part_rows) |-> k]
C8_Witness ==
    /\ part_pc = "built"
    /\ Len(part_rows) > 200
    /\ Len(part_texts) = 3
    /\ Len(C8_ItemsOf(part_texts[3])) = 1

(***************************************************************************)
(* Claims about the review stage.                                          *)
(***************************************************************************)

\* What the review service answered for an appid, as a count: the count
\* itself, 0 for a request exception or a body that is no JSON; Unanswered
\* when the call raised or was never made.
Unanswered == -1
AnswerOf(aid) ==
    IF rev_ans[aid].kind \in {"count", "request-exception", "not-json"}
    THEN rev_ans[aid].n ELSE Unanswered
EntriesFor(aid, dict) == {k \in 1 .. Len(dict) : dict[k][1] = aid}

\* C11: a review request that ends in a request exception gives its appid
\* the count 0 in the result map and ends nothing: the run never ends in
\* the review stage, every other appid has the count the service
\* answered, and when fetch_jp_reviews_parallel has returned every
\* submitted appid was asked for.
C11_NetErrorIsZero ==
    /\ pipe_pc = "crashed" => \A aid \in AppIds : rev_ans[aid] = NoAnswer
    /\ \A aid \in AppIds :
          /\ rev_ans[aid].kind = "request-exception" =>
                 \E k \in 1 .. Len(results) : results[k] = <<aid, 0>>
          /\ rev_ans[aid].kind = "count" =>
                 \E k \in 1 .. Len(results) : results[k] = <<aid, rev_ans[aid].n>>
    /\ pipe_pc \in {"output", "built"} =>
          \A k \in 1 .. Len(prelim) : rev_ans[prelim[k].appid] # NoAnswer
C11_Witness ==
    /\ pipe_pc = "built"
    /\ \E a, b \in AppIds :
          /\ rev_ans[a].kind = "request-exception"
          /\ rev_ans[b].kind = "count"
          /\ Occurs(b, EmittedIds(texts))
          /\ ~Occurs(a, EmittedIds(texts))

\* C12: the review map and the rows are fixed by prelim and by what the
\* service answered for each appid, whatever the order in which the calls
\* completed: the map holds each answered appid once, with its answer, and
\* the rows are the entries of prelim whose answer reaches MIN_JP_REVIEWS,
\* each with its answer, in the order of the sort key.
C12_OrderFree ==
    /\ \A aid \in AppIds :
          /\ AnswerOf(aid) = Unanswered => EntriesFor(aid, results) = {}
          /\ AnswerOf(aid) # Unanswered =>
                 /\ Cardinality(EntriesFor(aid, results)) = 1
                 /\ \A k \in EntriesFor(aid, results) : results[k][2] = AnswerOf(aid)
    /\ pipe_pc \in {"output", "built"} =>
          /\ \A k \in 1 .. Len(prelim) :
                 AnswerOf(prelim[k].appid) >= MIN_JP_REVIEWS =>
                     \E j \in 1 .. Len(rows) :
                         rows[j] = WithReviews(prelim[k], AnswerOf(prelim[k].appid))
          /\ \A j \in 1 .. Len(rows) :
                 \E k \in 1 .. Len(prelim) :
                     /\ AnswerOf(prelim[k].appid) >= MIN_JP_REVIEWS
                     /\ rows[j] = WithReviews(prelim[k], AnswerOf(prelim[k].appid))
          /\ \A j, k \in 1 .. Len(rows) : rows[j].appid = rows[k].appid => j = k
          /\ \A j \in 1 .. Len(rows) - 1 :
                 C6_KeyLeq(rows[j], rows[j + 1]) /\ ~C6_KeyLeq(rows[j + 1], rows[j])
    /\ pipe_pc = "built" => EmittedIds(texts) = [j \in 1 .. Len(rows) |-> rows[j].appid]
C12_Witness ==
    /\ pipe_pc = "built"
    /\ Len(rows) >= 2
    /\ Len(results) = Len(prelim)
    /\ results[1][1] # prelim[1].appid

(***************************************************************************)
(* Claims about the scan and the id lookup.                                *)
(***************************************************************************)

\* C13: the deals the scan returns were accumulated under the sort key
\* whose scan completed; when the scan of no sort key completed (every
\* candidate was given up after an HTTP error, used_sort stays None) the
\* returned list holds no deal.
C13_OnlyWinningKey == pipe_pc = "map" /\ used_sort = 0 => deals = <<>>

\* C14: the catalog ids handed to the lookup hold no id twice, are the
\* ids of the deals that have one, and stand in the order in which they
\* first occur in the deals.
C14_FirstAt(id) ==
    CHOOSE n \in 1 .. Len(deals) : deals[n].id = id /\ \A m \in 1 .. n - 1 : deals[m].id # id
C14_IdsDeduped ==
    pipe_pc \notin {"scan", "map"} /\ (pipe_pc = "crashed" => itad_ids # <<>>) =>
        /\ \A j, k \in 1 .. Len(itad_ids) : itad_ids[j] = itad_ids[k] => j = k
        /\ \A k \in 1 .. Len(itad_ids) :
              itad_ids[k] # NoId /\ \E n \in 1 .. Len(deals) : deals[n].id = itad_ids[k]
        /\ \A n \in 1 .. Len(deals) : deals[n].id # NoId => Occurs(deals[n].id, itad_ids)
        /\ \A j, k \in 1 .. Len(itad_ids) :
              j < k => C14_FirstAt(itad_ids[j]) < C14_FirstAt(itad_ids[k])
C14_Witness ==
    /\ pipe_pc = "details"
    /\ Len(deals) = 3
    /\ deals[1].id = deals[3].id
    /\ deals[1].id # deals[2].id
    /\ itad_ids = <<deals[1].id, deals[2].id>>

\* C15: a catalog id is a key of id2appid exactly when the lookup response
\* lists for it at least one reference app/<integer>, its value is the
\* integer of the first such reference of its list, and an id that the
\* response leaves out, lists nothing for, or lists no such reference for
\* is left out of id2appid while the run goes on.
C15_Listed(id) == \E k \in 1 .. Len(mapping) : mapping[k][1] = id
C15_RefsOf(id) == mapping[CHOOSE k \in 1 .. Len(mapping) : mapping[k][1] = id][2]
C15_AppRefs(id) ==
    IF C15_Listed(id)
    THEN {k \in 1 .. Len(C15_RefsOf(id)) :
              LET sid == C15_RefsOf(id)[k]
              IN sid.str /\ sid.prefix = "app" /\ sid.tail \in {"0", "10", "20", "30"}}
    ELSE {}
C15_FirstAppRef ==
    /\ \A j, k \in 1 .. Len(id2appid) : id2appid[j][1] = id2appid[k][1] => j = k
    /\ \A k \in 1 .. Len(id2appid) : Occurs(id2appid[k][1], itad_ids)
    /\ \A n \in 1 .. Len(itad_ids) :
          LET id == itad_ids[n]
              refs == C15_AppRefs(id)
          IN /\ HasKey(id2appid, id) <=> refs # {}
             /\ refs # {} =>
                   LET first == CHOOSE k \in refs : \A m \in refs : k <= m
                   IN Get(id2appid, id) = ParseInt(C15_RefsOf(id)[first].tail)
C15_Witness ==
    /\ pipe_pc = "details"
    /\ \E n \in 1 .. Len(itad_ids) : ~C15_Listed(itad_ids[n])
    /\ \E n \in 1 .. Len(itad_ids) :
          /\ C15_Listed(itad_ids[n])
          /\ Len(C15_RefsOf(itad_ids[n])) = 4
          /\ Get(id2appid, itad_ids[n]) = 20
    /\ \E n \in 1 .. Len(itad_ids) :
          /\ C15_Listed(itad_ids[n])
          /\ C15_AppRefs(itad_ids[n]) = {}

----------------------------------------------------------------------------
\* Claims about the appdetails cache

\* C16: over the calls of steam_appdetails_batch of one process, an id
\* whose data is in the cache is never fetched again and keeps its cached
\* data, which the call returns for it; one call fetches an id at most once,
\* whatever its input list repeats; and an entry enters the cache only by a
\* fetch of that id that answered a payload.
C16_Fetches(seq, aid) == Cardinality({k \in 1 .. Len(seq) : seq[k] = aid})
C16_StateOk ==
    \A aid \in AppIds :
        /\ C16_Fetches(fetched, aid) <= 1
        /\ details_cache[aid] # NoData => details_cache[aid] \in Payloads(aid)
C16_StepOk ==
    \A aid \in AppIds :
        /\ details_cache[aid] # NoData =>
              /\ details_cache'[aid] = details_cache[aid]
              /\ C16_Fetches(fetched', aid) <= C16_Fetches(fetched, aid)
              /\ pipe_pc = "details" /\ ids # <<>> /\ Head(ids) = aid =>
                    details_map'[aid] = details_cache[aid]
        /\ details_cache'[aid] # details_cache[aid] =>
              /\ fetched' = Append(fetched, aid)
              /\ details_cache'[aid] \in Payloads(aid)
              /\ details_map'[aid] = details_cache'[aid]
              /\ aid \notin failed'
C16_CacheHitSkipsFetch == []C16_StateOk /\ [][C16_StepOk]_vars
C16_Witness ==
    /\ pipe_pc = "prelim"
    /\ batch_calls = 2
    /\ failed = {}
    /\ \E j, k \in 1 .. Len(target_appids) :
          /\ j < k
          /\ target_appids[j] = target_appids[k]
          /\ target_appids[j] \in AppIds
          /\ C16_Fetches(fetched, target_appids[j]) = 0
          /\ details_cache[target_appids[j]] # NoData
          /\ details_map[target_appids[j]] = details_cache[target_appids[j]]

----------------------------------------------------------------------------
\* Claims about the prices of the emitted items

\* C17: every emitted item has final <= initial; an item the store marks
\* free has initial, final and off all zero; and an item that is not free
\* and has no price_overview is not emitted.
C17_PricesConsistent ==
    \A k \in 1 .. Len(rows) :
        LET data == details_map[rows[k].appid]
        IN /\ rows[k].final <= rows[k].initial
           /\ data.is_free => rows[k].initial = 0 /\ rows[k].final = 0 /\ rows[k].off = 0
           /\ data.is_free \/ data.po.present

----------------------------------------------------------------------------
\* Claims about posting and preview

\* C18: with posting enabled the tweet requests go out in the order of the
\* units: the k-th request carries the k-th unit, the first one carries no
\* reply reference, every later one is sent only after the one before it
\* was created and replies to the id returned for that one; a run that
\* returns has posted every unit.
C18_Threaded ==
    POST_TO_X =>
        /\ Len(tweets) <= Len(texts)
        /\ \A k \in 1 .. Len(tweets) :
              /\ tweets[k].text = texts[k]
              /\ k = 1 => tweets[k].reply_to = NoReply
              /\ k > 1 => tweets[k - 1].ok /\ tweets[k].reply_to = tweets[k - 1].id
        /\ post_pc = "returned" =>
              Len(tweets) = Len(texts) /\ \A k \in 1 .. Len(tweets) : tweets[k].ok
C18_Witness ==
    /\ POST_TO_X
    /\ post_pc = "returned"
    /\ Len(tweets) = 3
    /\ tweets[1].id # tweets[2].id
    /\ tweets[3].reply_to = tweets[2].id

\* C19: when the token refresh fails no tweet request is sent, when the
\* request for a unit fails no request follows it, in both cases the run
\* ends with exit status 1, and the requests already made stay as they
\* were: nothing is taken back.
C19_RefreshFailed ==
    /\ token_log # <<>>
    /\ LET last == token_log[Len(token_log)]
       IN \/ last \in {"no-config", "other", "bad-body"}
          \/ last \in {"5xx", "conn"} /\ Len(token_log) = REFRESH_TRIES
C19_StateOk ==
    /\ \A k \in 1 .. Len(tweets) - 1 : tweets[k].ok
    /\ C19_RefreshFailed => tweets = <<>> /\ post_pc = "exited" /\ exit_status = 1
    /\ tweets # <<>> /\ ~tweets[Len(tweets)].ok => post_pc = "exited" /\ exit_status = 1
    /\ post_pc = "exited" <=> exit_status = 1
C19_StepOk ==
    /\ Len(tweets') >= Len(tweets)
    /\ SubSeq(tweets', 1, Len(tweets)) = tweets
    /\ post_pc = "exited" => tweets' = tweets
C19_FailFast == []C19_StateOk /\ [][C19_StepOk]_vars
C19_Witness ==
    /\ post_pc = "exited"
    /\ exit_status = 1
    /\ Len(texts) = 3
    /\ Len(tweets) = 2
    /\ tweets[1].ok
    /\ ~tweets[2].ok

\* C20 as stated: with posting disabled no token refresh and no tweet
\* request is made and, in every run, the empty one included, each unit is
\* printed in order behind its part index.
C20_Indexed ==
    [k \in 1 .. Len(texts) |-> [part |-> k, of |-> Len(texts), text |-> texts[k]]]
C20_AlwaysIndexed ==
    ~POST_TO_X /\ post_pc = "returned" =>
        token_log = <<>> /\ tweets = <<>> /\ printed = C20_Indexed

\* C20, amended: with posting disabled no token refresh and no tweet
\* request is made and the run ends with status 0; when rows is not empty
\* each unit is printed in order behind its part index i/k; when rows is
\* empty the single unit is printed alone, without a part index.
C20_Preview ==
    ~POST_TO_X /\ post_pc # "off" =>
        /\ token_log = <<>> /\ tweets = <<>> /\ bearer = NoBearer
        /\ exit_status = 0
        /\ Len(printed) <= Len(texts)
        /\ rows # <<>> => printed = SubSeq(C20_Indexed, 1, Len(printed))
        /\ rows = <<>> =>
              printed \in {<<>>, <<[part |-> 0, of |-> 0, text |-> texts[1]]>>}
        /\ post_pc = "returned" => Len(printed) = Len(texts)
C20_Witness ==
    /\ ~POST_TO_X
    /\ post_pc = "returned"
    /\ Len(texts) = 3
    /\ Len(printed) = 3
    /\ printed[3].part = 3

----------------------------------------------------------------------------
\* Claims about the scan's sort keys and its early stop

\* The page events of scan_log under one sort key.
KeyPages(idx) ==
    LET under(e) == e.sort = idx /\ e.res = "page"
    IN SelectSeq(scan_log, under)

\* C21: a scan that runs to its end under a sort key and has gathered no
\* deal makes the function try the next sort key: an empty result is only
\* returned from a completed scan under the last key.
C21_EmptyFallsBack ==
    pipe_pc = "map" /\ used_sort # 0 /\ deals = <<>> => used_sort = Len(sort_candidates)

\* C22: the sort keys are asked for in the order of sort_candidates, the
\* key changing only behind a request that failed with an HTTP error, and
\* then to the next one, with offset 0 and deals empty: deals holds what
\* the pages of the current key gave; and once a scan has completed under
\* a key the function has returned, no other key being asked for.
RECURSIVE C22_SumIn(_)
C22_SumIn(pp) == IF pp = <<>> THEN 0 ELSE pp[1].pin + C22_SumIn(Tail(pp))
C22_InOrder ==
    pipe_pc \in {"scan", "map"} =>
        /\ \A k \in 1 .. Len(scan_log) :
              /\ k = 1 => scan_log[k].sort = 1
              /\ k > 1 => scan_log[k].sort =
                              IF scan_log[k - 1].res = "http-error"
                              THEN scan_log[k - 1].sort + 1
                              ELSE scan_log[k - 1].sort
              /\ scan_log[k].sort \in 1 .. Len(sort_candidates)
        /\ pipe_pc = "scan" /\ scan_log # <<>>
              /\ scan_log[Len(scan_log)].res = "http-error" =>
                 /\ sort_idx = scan_log[Len(scan_log)].sort + 1
                 /\ offset = 0 /\ too_far_pages = 0 /\ deals = <<>>
        /\ Len(deals) = C22_SumIn(KeyPages(sort_idx))
        /\ used_sort # 0 =>
              /\ pipe_pc = "map"
              /\ scan_log[Len(scan_log)].sort = used_sort
              /\ scan_log[Len(scan_log)].res = "page"
C22_Witness ==
    /\ pipe_pc = "map"
    /\ used_sort = 3
    /\ Len(scan_log) = 5
    /\ scan_log[1].pin > 0 /\ scan_log[2].res = "http-error"
    /\ scan_log[3].pin > 0 /\ scan_log[4].res = "http-error"
    /\ Len(deals) = 1

\* C23: under one sort key the scan stops at the first page that is the
\* third in a row with no entry inside the window and at least one past its
\* end, or at the first page with hasMore false, and at no other page.
C23_Far(e) == e.pin = 0 /\ e.pout > 0
C23_Stops(pp, k) ==
    \/ ~pp[k].more
    \/ k >= 3 /\ C23_Far(pp[k]) /\ C23_Far(pp[k - 1]) /\ C23_Far(pp[k - 2])
----------------------------------------------------------------------------
\* Claims about transient responses

\* C24: a response with status 429 or with any status from 500 to 599,
\* met while the loop has attempts left, does not raise: the call begins
\* its backoff sleep, and after the sleep it resets the throttle clock of
\* its own endpoint class, leaves the other class's clock alone, and goes
\* on to another attempt.
C24_Transient(r) ==
    r.exc = "none" /\ (r.status = 429 \/ (r.status >= 500 /\ r.status < 600))
C24_StepOk ==
    \A t \in Callers :
        /\ (pc[t] = "handle" /\ C24_Transient(resp[t]) /\ i[t] < max_retry
               /\ pc'[t] # "handle") => pc'[t] = "backoff"
        /\ (pc[t] = "backoff" /\ pc'[t] # "backoff") =>
              /\ pc'[t] \in {"throttle", "final_sleep"}
              /\ since_ts'[KindOf(t)] = STEAM_MIN_INTERVAL[KindOf(t)]
              /\ \A k \in Kinds \ {KindOf(t)} : since_ts'[k] = since_ts[k]
C24_TransientRetried == [][C24_StepOk]_vars

----------------------------------------------------------------------------
\* Claims about the worker pool and the caches of one run

\* C25: in the review stage never more than JP_REVIEW_WORKERS calls of
\* _fetch_jp_reviews run at once, whatever the number of appids submitted;
\* fetch_jp_reviews_parallel does return, and when it has returned every
\* submitted appid has been started and has ended.
C25_StateOk ==
    /\ Cardinality(running) <= JP_REVIEW_WORKERS
    /\ \A k \in 1 .. Len(futs) : futs[k] \notin running
    /\ pipe_pc \in {"output", "built"} =>
          /\ futs = <<>>
          /\ running = {}
          /\ \A k \in 1 .. Len(prelim) : rev_ans[prelim[k].appid] # NoAnswer
C25_BoundedPool ==
    /\ []C25_StateOk
    /\ (pipe_pc = "reviews") ~> (pipe_pc = "output")
C25_Witness ==
    /\ pipe_pc = "reviews"
    /\ Len(prelim) = 3
    /\ Len(futs) = 1
    /\ Cardinality(running) = 2

\* C26: in one run of main() no appid is requested from appdetails more
\* than once, none from appreviews more than once, and none stands more
\* than once in rows or in the units built from them, also when deals
\* holds one catalog id several times or several catalog ids resolve to
\* one appid.
C26_Emitted(k) == C8_ItemsOf(texts[k])
C26_OncePerAppid ==
    /\ \A aid \in AppIds :
          /\ C16_Fetches(fetched, aid) <= 1
          /\ rev_reqs[aid] <= 1
    /\ \A j, k \in 1 .. Len(rows) : rows[j].appid = rows[k].appid => j = k
    /\ \A u, v \in 1 .. Len(texts) :
          \A j \in 1 .. Len(C26_Emitted(u)), k \in 1 .. Len(C26_Emitted(v)) :
              C26_Emitted(u)[j] = C26_Emitted(v)[k] => u = v /\ j = k
C26_Witness ==
    /\ pipe_pc = "built"
    /\ Len(deals) = 3
    /\ deals[1].id = deals[2].id
    /\ deals[3].id # deals[1].id
    /\ Len(target_appids) = 3
    /\ target_appids[1] = target_appids[3]
    /\ \E u \in 1 .. Len(texts) : \E j \in 1 .. Len(C26_Emitted(u)) :
          C26_Emitted(u)[j] = target_appids[1]

\* C27: when a call of _fetch_jp_reviews has returned a value for an appid
\* the cache holds that value for it, the 0 that stands for a request
\* exception included; from then on the entry does not change, no request
\* is sent for the appid, and every call for it returns the cached value.
C27_StateOk ==
    \A aid \in AppIds :
        reviews_cache[aid] # NoCount =>
            /\ rev_ans[aid].kind \in {"count", "request-exception", "not-json"}
            /\ reviews_cache[aid] = rev_ans[aid].n
            /\ rev_ans[aid].kind = "request-exception" => reviews_cache[aid] = 0
C27_StepOk ==
    \A aid \in AppIds :
        /\ reviews_cache[aid] # NoCount =>
              /\ reviews_cache'[aid] = reviews_cache[aid]
              /\ rev_reqs'[aid] = rev_reqs[aid]
              /\ aid \in running /\ aid \notin running' =>
                    results' = Append(results, <<aid, reviews_cache[aid]>>)
        /\ aid \in running /\ aid \notin running' /\ Len(results') > Len(results) =>
              /\ results'[Len(results')][1] = aid
              /\ reviews_cache'[aid] = results'[Len(results')][2]
        /\ rev_reqs'[aid] # rev_reqs[aid] /\ rev_ans'[aid].kind = "request-exception" =>
              /\ reviews_cache'[aid] = 0
              /\ results' = Append(results, <<aid, 0>>)
C27_CachedForGood == []C27_StateOk /\ [][C27_StepOk]_vars
C27_Witness ==
    /\ pipe_pc = "output"
    /\ review_calls = 2
    /\ \E aid \in AppIds :
          /\ \E k \in 1 .. Len(results) : results[k] = <<aid, 0>>
          /\ rev_ans[aid].kind = "request-exception"
          /\ rev_reqs[aid] = 1
          /\ Len(results) = 1
          /\ rev_reqs = [a \in AppIds |-> IF a = aid THEN 1 ELSE 0]

(***************************************************************************)
(* Claims about the wishlist script.                                       *)
(***************************************************************************)

\* C28: the rendered text lists at most TOP_N titles; each listed title's
\* fetched metadata says coming_soon; the titles stand in strictly
\* increasing rank of the wishlist search, so no appid stands twice; and
\* no coming_soon candidate whose metadata was fetched is missing while a
\* title of lower rank is listed.
C28_Listed == [k \in 1 .. Len(wl_text) |-> wl_text[k].link]
C28_RankOf(aid) == CHOOSE n \in 1 .. Len(candidates) : candidates[n] = aid
C28_IsListed(aid) == \E k \in 1 .. Len(wl_text) : C28_Listed[k] = aid
C28_TopOfWishlist ==
    /\ Len(wl_text) <= TOP_N
    /\ \A k \in 1 .. Len(wl_text) :
          /\ \E n \in 1 .. Len(candidates) : candidates[n] = C28_Listed[k]
          /\ HasKey(details, C28_Listed[k])
          /\ Get(details, C28_Listed[k]).coming_soon = "true"
          /\ wl_text[k].title = wl_text[k].link
    /\ \A j, k \in 1 .. Len(wl_text) :
          j < k => C28_RankOf(C28_Listed[j]) < C28_RankOf(C28_Listed[k])
    /\ \A j, k \in 1 .. Len(wl_text) : C28_Listed[j] = C28_Listed[k] => j = k
    /\ wl_pc \in {"post", "returned", "exited"} =>
          \A n \in 1 .. Len(details) :
              details[n][2].coming_soon = "true" /\ ~C28_IsListed(details[n][1]) =>
                  /\ Len(wl_text) = TOP_N
                  /\ \A k \in 1 .. Len(wl_text) :
                        C28_RankOf(C28_Listed[k]) < C28_RankOf(details[n][1])
C28_Witness ==
    /\ wl_pc = "returned"
    /\ Len(wl_text) = TOP_N
    /\ candidates[1] = 2
    /\ Len(wl_skipped) = 1
    /\ \E n \in 1 .. Len(details) :
          /\ details[n][2].coming_soon = "false"
          /\ C28_RankOf(details[n][1]) < C28_RankOf(C28_Listed[TOP_N])
    /\ \E n \in 1 .. Len(details) :
          /\ details[n][2].coming_soon = "true"
          /\ ~C28_IsListed(details[n][1])

====
